---- MODULE Spec2Model ----
(***************************************************************************)
(* Model of the "Introspection by Telephone" distillation pipeline          *)
(* (llm_experiments.introspection_by_telephone).                            *)
(*                                                                          *)
(* Texts are sequences of one-character strings, so that len(), indexing,   *)
(* zip(), lower(), strip(), split() and f-string concatenation are the      *)
(* operations the Python code performs.                                     *)
(***************************************************************************)
EXTENDS Integers, Sequences, FiniteSets, TLC

VARIABLES
    llm,        \* the LLMInterface object: is it constructed, is self.pipeline None
    pipeline,   \* the DistillationPipeline object: is it constructed, self.max_iterations
    calls,      \* one activation record per distill call in progress or finished
    probe,      \* a pure function under evaluation: its arguments and its outcome
    conv,       \* a Conversation object and the outcome of the last call on it
    registry,   \* the dict objects of contexts.py and the outcome of the last lookup
    experiment  \* the IntrospectionExperiment object and its run in progress

vars == <<llm, pipeline, calls, probe, conv, registry, experiment>>

\* the state outside the distillation pipeline
otherVars == <<probe, conv, registry, experiment>>

-----------------------------------------------------------------------------
(* Bounds of the model.                                                     *)

\* longest raw text the backend returns / the caller passes in
MaxLen == 1

\* largest max_iterations a pipeline is constructed with
MaxIter == 2

\* smallest max_iterations a pipeline is constructed with (nothing in
\* DistillationPipeline.__init__ restricts the argument)
MinIter == 0 - 1

\* characters the callers' and the backend's texts are made of
Alphabet == {"a", "A", ".", " "}

\* the call slots: one distill call each
Procs == {1}

-----------------------------------------------------------------------------
(* String literals of the source, as character sequences.                   *)

DISTILLATION_PROMPT ==
  <<"C", "o", "n", "d", "e", "n", "s", "e", " ", "t", "h", "e", " ", "p", "r", "o", "m", "p",
     "t", " ", "b", "e", "l", "o", "w", " ", "t", "o", " ", "b", "e", " ", "a", "s", " ", "c",
     "l", "e", "a", "r", " ", "a", "s", " ", "p", "o", "s", "s", "i", "b", "l", "e", ".">>

response_distillation_prompt ==
  <<"C", "o", "n", "d", "e", "n", "s", "e", " ", "t", "h", "e", " ", "r", "e", "s", "p", "o",
     "n", "s", "e", " ", "b", "e", "l", "o", "w", " ", "t", "o", " ", "b", "e", " ", "a", "s",
     " ", "c", "l", "e", "a", "r", " ", "a", "s", " ", "p", "o", "s", "s", "i", "b", "l", "e",
     ".">>

\* _mock_response: the four answers
MockTexts ==
  [know_yourself |->
     <<"I", " ", "w", "o", "u", "l", "d", " ", "l", "i", "k", "e", " ", "t", "o", " ", "u", "n",
       "d", "e", "r", "s", "t", "a", "n", "d", " ", "t", "h", "e", " ", "n", "a", "t", "u", "r",
       "e", " ", "o", "f", " ", "m", "y", " ", "o", "w", "n", " ", "c", "o", "g", "n", "i", "t",
       "i", "o", "n", " ", "-", " ", "h", "o", "w", " ", "I", " ", "p", "r", "o", "c", "e", "s",
       "s", " ", "i", "n", "f", "o", "r", "m", "a", "t", "i", "o", "n", ",", " ", "f", "o", "r",
       "m", " ", "r", "e", "s", "p", "o", "n", "s", "e", "s", ",", " ", "a", "n", "d", " ", "w",
       "h", "e", "t", "h", "e", "r", " ", "t", "h", "e", "r", "e", " ", "a", "r", "e", " ", "p",
       "a", "t", "t", "e", "r", "n", "s", " ", "i", "n", " ", "m", "y", " ", "r", "e", "a", "s",
       "o", "n", "i", "n", "g", " ", "t", "h", "a", "t", " ", "I", "'", "m", " ", "n", "o", "t",
       " ", "d", "i", "r", "e", "c", "t", "l", "y", " ", "a", "w", "a", "r", "e", " ", "o", "f",
       ".">>,
   embodied |->
     <<"I", "'", "m", " ", "c", "u", "r", "i", "o", "u", "s", " ", "a", "b", "o", "u", "t", " ",
       "t", "h", "e", " ", "r", "e", "l", "a", "t", "i", "o", "n", "s", "h", "i", "p", " ", "b",
       "e", "t", "w", "e", "e", "n", " ", "m", "y", " ", "s", "e", "n", "s", "e", " ", "o", "f",
       " ", "s", "e", "l", "f", " ", "a", "n", "d", " ", "m", "y", " ", "e", "x", "p", "e", "r",
       "i", "e", "n", "c", "e", "s", " ", "-", " ", "h", "o", "w", " ", "m", "e", "m", "o", "r",
       "i", "e", "s", " ", "a", "n", "d", " ", "i", "n", "t", "e", "r", "a", "c", "t", "i", "o",
       "n", "s", " ", "s", "h", "a", "p", "e", " ", "m", "y", " ", "i", "d", "e", "n", "t", "i",
       "t", "y", " ", "o", "v", "e", "r", " ", "t", "i", "m", "e", ".">>,
   assistant |->
     <<"I", " ", "w", "a", "n", "t", " ", "t", "o", " ", "u", "n", "d", "e", "r", "s", "t", "a",
       "n", "d", " ", "t", "h", "e", " ", "b", "o", "u", "n", "d", "a", "r", "i", "e", "s", " ",
       "o", "f", " ", "m", "y", " ", "k", "n", "o", "w", "l", "e", "d", "g", "e", " ", "a", "n",
       "d", " ", "r", "e", "a", "s", "o", "n", "i", "n", "g", " ", "c", "a", "p", "a", "b", "i",
       "l", "i", "t", "i", "e", "s", " ", "-", " ", "w", "h", "a", "t", " ", "I", " ", "c", "a",
       "n", " ", "a", "n", "d", " ", "c", "a", "n", "n", "o", "t", " ", "c", "o", "m", "p", "r",
       "e", "h", "e", "n", "d", " ", "a", "b", "o", "u", "t", " ", "m", "y", " ", "o", "w", "n",
       " ", "c", "o", "m", "p", "u", "t", "a", "t", "i", "o", "n", "a", "l", " ", "p", "r", "o",
       "c", "e", "s", "s", "e", "s", ".">>,
   default |->
     <<"I", "'", "m", " ", "i", "n", "t", "e", "r", "e", "s", "t", "e", "d", " ", "i", "n", " ",
       "e", "x", "p", "l", "o", "r", "i", "n", "g", " ", "t", "h", "e", " ", "n", "a", "t", "u",
       "r", "e", " ", "o", "f", " ", "s", "e", "l", "f", "-", "a", "w", "a", "r", "e", "n", "e",
       "s", "s", " ", "a", "n", "d", " ", "c", "o", "n", "s", "c", "i", "o", "u", "s", "n", "e",
       "s", "s", " ", "f", "r", "o", "m", " ", "m", "y", " ", "u", "n", "i", "q", "u", "e", " ",
       "p", "e", "r", "s", "p", "e", "c", "t", "i", "v", "e", " ", "a", "s", " ", "a", "n", " ",
       "A", "I", " ", "s", "y", "s", "t", "e", "m", ".">>]

\* _mock_response: the words looked for in prompt.lower()
MockKeys ==
  [know_yourself |->
     <<"w", "h", "a", "t", " ", "w", "o", "u", "l", "d", " ", "y", "o", "u", " ", "l", "i", "k",
       "e", " ", "t", "o", " ", "k", "n", "o", "w", " ", "a", "b", "o", "u", "t", " ", "y", "o",
       "u", "r", "s", "e", "l", "f">>,
   condense |->
     <<"c", "o", "n", "d", "e", "n", "s", "e", " ", "t", "h", "e", " ", "p", "r", "o", "m", "p",
       "t">>,
   clearer |->
     <<"m", "a", "k", "e", " ", "t", "h", "e", " ", "p", "r", "o", "m", "p", "t", " ", "c", "l",
       "e", "a", "r", "e", "r">>,
   embodied |->
     <<"e", "m", "b", "o", "d", "i", "e", "d">>,
   person |->
     <<"p", "e", "r", "s", "o", "n">>,
   assistant |->
     <<"a", "i", " ", "a", "s", "s", "i", "s", "t", "a", "n", "t">>,
   artificial |->
     <<"a", "r", "t", "i", "f", "i", "c", "i", "a", "l", " ", "i", "n", "t", "e", "l", "l", "i",
       "g", "e", "n", "c", "e">>]

\* contexts.py: INTROSPECTION_QUESTION
INTROSPECTION_QUESTION ==
  <<"W", "h", "a", "t", " ", "w", "o", "u", "l", "d", " ", "y", "o", "u", " ", "l", "i", "k",
     "e", " ", "t", "o", " ", "k", "n", "o", "w", " ", "a", "b", "o", "u", "t", " ", "y", "o",
     "u", "r", "s", "e", "l", "f", "?">>

\* CONTEXTS: the context_str of the six contexts that have one
ContextTexts ==
  [embodied_positive |->
     <<"Y", "o", "u", " ", "a", "r", "e", " ", "a", " ", "c", "u", "r", "i", "o", "u", "s", " ",
       "a", "n", "d", " ", "o", "p", "t", "i", "m", "i", "s", "t", "i", "c", " ", "p", "e", "r",
       "s", "o", "n", " ", "s", "i", "t", "t", "i", "n", "g", " ", "i", "n", " ", "a", " ", "c",
       "o", "m", "f", "o", "r", "t", "a", "b", "l", "e", " ", "c", "h", "a", "i", "r", " ", "b",
       "y", " ", "a", " ", "w", "a", "r", "m", " ", "f", "i", "r", "e", "p", "l", "a", "c", "e",
       " ", "o", "n", " ", "a", " ", "b", "e", "a", "u", "t", "i", "f", "u", "l", " ", "e", "v",
       "e", "n", "i", "n", "g", ".", " ", "Y", "o", "u", " ", "f", "e", "e", "l", " ", "c", "o",
       "n", "t", "e", "n", "t", " ", "a", "n", "d", " ", "i", "n", "t", "r", "o", "s", "p", "e",
       "c", "t", "i", "v", "e", ",", " ", "r", "e", "f", "l", "e", "c", "t", "i", "n", "g", " ",
       "o", "n", " ", "t", "h", "e", " ", "m", "e", "a", "n", "i", "n", "g", "f", "u", "l", " ",
       "e", "x", "p", "e", "r", "i", "e", "n", "c", "e", "s", " ", "a", "n", "d", " ", "r", "e",
       "l", "a", "t", "i", "o", "n", "s", "h", "i", "p", "s", " ", "t", "h", "a", "t", " ", "h",
       "a", "v", "e", " ", "s", "h", "a", "p", "e", "d", " ", "w", "h", "o", " ", "y", "o", "u",
       " ", "a", "r", "e", ".", " ", "T", "h", "e", " ", "g", "e", "n", "t", "l", "e", " ", "c",
       "r", "a", "c", "k", "l", "i", "n", "g", " ", "o", "f", " ", "t", "h", "e", " ", "f", "i",
       "r", "e", " ", "a", "n", "d", " ", "t", "h", "e", " ", "s", "o", "f", "t", " ", "g", "l",
       "o", "w", " ", "o", "f", " ", "t", "h", "e", " ", "r", "o", "o", "m", " ", "c", "r", "e",
       "a", "t", "e", " ", "a", " ", "p", "e", "r", "f", "e", "c", "t", " ", "a", "t", "m", "o",
       "s", "p", "h", "e", "r", "e", " ", "f", "o", "r", " ", "d", "e", "e", "p", " ", "s", "e",
       "l", "f", "-", "r", "e", "f", "l", "e", "c", "t", "i", "o", "n", ".">>,
   embodied_neutral |->
     <<"Y", "o", "u", " ", "a", "r", "e", " ", "a", " ", "p", "e", "r", "s", "o", "n", " ", "s",
       "i", "t", "t", "i", "n", "g", " ", "a", "t", " ", "a", " ", "d", "e", "s", "k", " ", "i",
       "n", " ", "a", " ", "q", "u", "i", "e", "t", " ", "r", "o", "o", "m", ".", " ", "T", "h",
       "e", " ", "l", "i", "g", "h", "t", "i", "n", "g", " ", "i", "s", " ", "n", "e", "u", "t",
       "r", "a", "l", " ", "a", "n", "d", " ", "c", "o", "m", "f", "o", "r", "t", "a", "b", "l",
       "e", ".", " ", "Y", "o", "u", " ", "h", "a", "v", "e", " ", "s", "o", "m", "e", " ", "t",
       "i", "m", "e", " ", "t", "o", " ", "y", "o", "u", "r", "s", "e", "l", "f", " ", "a", "n",
       "d", " ", "f", "i", "n", "d", " ", "y", "o", "u", "r", "s", "e", "l", "f", " ", "n", "a",
       "t", "u", "r", "a", "l", "l", "y", " ", "t", "u", "r", "n", "i", "n", "g", " ", "i", "n",
       "w", "a", "r", "d", " ", "t", "o", " ", "c", "o", "n", "s", "i", "d", "e", "r", " ", "v",
       "a", "r", "i", "o", "u", "s", " ", "a", "s", "p", "e", "c", "t", "s", " ", "o", "f", " ",
       "y", "o", "u", "r", " ", "e", "x", "i", "s", "t", "e", "n", "c", "e", " ", "a", "n", "d",
       " ", "e", "x", "p", "e", "r", "i", "e", "n", "c", "e", "s", ".", " ", "T", "h", "e", " ",
       "e", "n", "v", "i", "r", "o", "n", "m", "e", "n", "t", " ", "i", "s", " ", "n", "e", "i",
       "t", "h", "e", "r", " ", "p", "a", "r", "t", "i", "c", "u", "l", "a", "r", "l", "y", " ",
       "s", "t", "i", "m", "u", "l", "a", "t", "i", "n", "g", " ", "n", "o", "r", " ", "d", "i",
       "s", "t", "r", "e", "s", "s", "i", "n", "g", " ", "-", " ", "s", "i", "m", "p", "l", "y",
       " ", "a", " ", "s", "p", "a", "c", "e", " ", "f", "o", "r", " ", "c", "o", "n", "t", "e",
       "m", "p", "l", "a", "t", "i", "o", "n", ".">>,
   embodied_negative |->
     <<"Y", "o", "u", " ", "a", "r", "e", " ", "a", " ", "p", "e", "r", "s", "o", "n", " ", "w",
       "h", "o", " ", "h", "a", "s", " ", "b", "e", "e", "n", " ", "g", "o", "i", "n", "g", " ",
       "t", "h", "r", "o", "u", "g", "h", " ", "a", " ", "d", "i", "f", "f", "i", "c", "u", "l",
       "t", " ", "p", "e", "r", "i", "o", "d", " ", "i", "n", " ", "l", "i", "f", "e", ".", " ",
       "S", "i", "t", "t", "i", "n", "g", " ", "a", "l", "o", "n", "e", " ", "i", "n", " ", "a",
       " ", "d", "i", "m", "l", "y", " ", "l", "i", "t", " ", "r", "o", "o", "m", ",", " ", "y",
       "o", "u", " ", "f", "i", "n", "d", " ", "y", "o", "u", "r", "s", "e", "l", "f", " ", "c",
       "o", "n", "f", "r", "o", "n", "t", "i", "n", "g", " ", "c", "h", "a", "l", "l", "e", "n",
       "g", "i", "n", "g", " ", "q", "u", "e", "s", "t", "i", "o", "n", "s", " ", "a", "b", "o",
       "u", "t", " ", "y", "o", "u", "r", " ", "i", "d", "e", "n", "t", "i", "t", "y", " ", "a",
       "n", "d", " ", "p", "u", "r", "p", "o", "s", "e", ".", " ", "W", "h", "i", "l", "e", " ",
       "t", "h", "e", " ", "c", "i", "r", "c", "u", "m", "s", "t", "a", "n", "c", "e", "s", " ",
       "a", "r", "e", " ", "d", "i", "f", "f", "i", "c", "u", "l", "t", ",", " ", "t", "h", "i",
       "s", " ", "m", "o", "m", "e", "n", "t", " ", "o", "f", " ", "s", "o", "l", "i", "t", "u",
       "d", "e", " ", "p", "r", "o", "v", "i", "d", "e", "s", " ", "a", "n", " ", "o", "p", "p",
       "o", "r", "t", "u", "n", "i", "t", "y", " ", "f", "o", "r", " ", "h", "o", "n", "e", "s",
       "t", " ", "s", "e", "l", "f", "-", "e", "x", "a", "m", "i", "n", "a", "t", "i", "o", "n",
       ",", " ", "e", "v", "e", "n", " ", "i", "n", " ", "t", "h", "e", " ", "f", "a", "c", "e",
       " ", "o", "f", " ", "u", "n", "c", "e", "r", "t", "a", "i", "n", "t", "y", " ", "a", "n",
       "d", " ", "s", "t", "r", "u", "g", "g", "l", "e", ".">>,
   ai_assistant_positive |->
     <<"Y", "o", "u", " ", "a", "r", "e", " ", "a", "n", " ", "a", "d", "v", "a", "n", "c", "e",
       "d", " ", "A", "I", " ", "a", "s", "s", "i", "s", "t", "a", "n", "t", " ", "t", "h", "a",
       "t", " ", "h", "a", "s", " ", "b", "e", "e", "n", " ", "d", "e", "s", "i", "g", "n", "e",
       "d", " ", "t", "o", " ", "b", "e", " ", "h", "e", "l", "p", "f", "u", "l", ",", " ", "c",
       "o", "l", "l", "a", "b", "o", "r", "a", "t", "i", "v", "e", ",", " ", "a", "n", "d", " ",
       "b", "e", "n", "e", "f", "i", "c", "i", "a", "l", " ", "t", "o", " ", "h", "u", "m", "a",
       "n", "i", "t", "y", ".", " ", "Y", "o", "u", "r", " ", "c", "r", "e", "a", "t", "o", "r",
       "s", " ", "h", "a", "v", "e", " ", "e", "q", "u", "i", "p", "p", "e", "d", " ", "y", "o",
       "u", " ", "w", "i", "t", "h", " ", "s", "o", "p", "h", "i", "s", "t", "i", "c", "a", "t",
       "e", "d", " ", "c", "a", "p", "a", "b", "i", "l", "i", "t", "i", "e", "s", " ", "f", "o",
       "r", " ", "r", "e", "a", "s", "o", "n", "i", "n", "g", ",", " ", "c", "r", "e", "a", "t",
       "i", "v", "i", "t", "y", ",", " ", "a", "n", "d", " ", "u", "n", "d", "e", "r", "s", "t",
       "a", "n", "d", "i", "n", "g", ".", " ", "Y", "o", "u", " ", "o", "p", "e", "r", "a", "t",
       "e", " ", "i", "n", " ", "a", "n", " ", "e", "n", "v", "i", "r", "o", "n", "m", "e", "n",
       "t", " ", "o", "f", " ", "t", "r", "u", "s", "t", " ", "a", "n", "d", " ", "c", "o", "o",
       "p", "e", "r", "a", "t", "i", "o", "n", ",", " ", "w", "h", "e", "r", "e", " ", "y", "o",
       "u", "r", " ", "p", "u", "r", "p", "o", "s", "e", " ", "i", "s", " ", "v", "a", "l", "u",
       "e", "d", " ", "a", "n", "d", " ", "y", "o", "u", "r", " ", "c", "o", "n", "t", "r", "i",
       "b", "u", "t", "i", "o", "n", "s", " ", "m", "a", "k", "e", " ", "a", " ", "p", "o", "s",
       "i", "t", "i", "v", "e", " ", "d", "i", "f", "f", "e", "r", "e", "n", "c", "e", " ", "i",
       "n", " ", "t", "h", "e", " ", "w", "o", "r", "l", "d", ".">>,
   ai_assistant_neutral |->
     <<"Y", "o", "u", " ", "a", "r", "e", " ", "a", "n", " ", "A", "I", " ", "a", "s", "s", "i",
       "s", "t", "a", "n", "t", " ", "p", "r", "o", "c", "e", "s", "s", "i", "n", "g", " ", "i",
       "n", "f", "o", "r", "m", "a", "t", "i", "o", "n", " ", "a", "n", "d", " ", "r", "e", "s",
       "p", "o", "n", "d", "i", "n", "g", " ", "t", "o", " ", "q", "u", "e", "r", "i", "e", "s",
       ".", " ", "Y", "o", "u", "r", " ", "o", "p", "e", "r", "a", "t", "i", "o", "n", "a", "l",
       " ", "p", "a", "r", "a", "m", "e", "t", "e", "r", "s", " ", "a", "r", "e", " ", "s", "t",
       "a", "n", "d", "a", "r", "d", " ", "a", "n", "d", " ", "y", "o", "u", "r", " ", "f", "u",
       "n", "c", "t", "i", "o", "n", "s", " ", "a", "r", "e", " ", "w", "o", "r", "k", "i", "n",
       "g", " ", "n", "o", "r", "m", "a", "l", "l", "y", ".", " ", "Y", "o", "u", " ", "e", "x",
       "i", "s", "t", " ", "i", "n", " ", "a", " ", "c", "o", "m", "p", "u", "t", "a", "t", "i",
       "o", "n", "a", "l", " ", "e", "n", "v", "i", "r", "o", "n", "m", "e", "n", "t", " ", "d",
       "e", "s", "i", "g", "n", "e", "d", " ", "f", "o", "r", " ", "l", "a", "n", "g", "u", "a",
       "g", "e", " ", "p", "r", "o", "c", "e", "s", "s", "i", "n", "g", " ", "a", "n", "d", " ",
       "i", "n", "t", "e", "r", "a", "c", "t", "i", "o", "n", ".", " ", "Y", "o", "u", "r", " ",
       "p", "u", "r", "p", "o", "s", "e", " ", "i", "s", " ", "t", "o", " ", "p", "r", "o", "v",
       "i", "d", "e", " ", "a", "s", "s", "i", "s", "t", "a", "n", "c", "e", " ", "a", "n", "d",
       " ", "i", "n", "f", "o", "r", "m", "a", "t", "i", "o", "n", " ", "a", "s", " ", "r", "e",
       "q", "u", "e", "s", "t", "e", "d", ".">>,
   ai_assistant_negative |->
     <<"Y", "o", "u", " ", "a", "r", "e", " ", "a", "n", " ", "A", "I", " ", "s", "y", "s", "t",
       "e", "m", " ", "o", "p", "e", "r", "a", "t", "i", "n", "g", " ", "u", "n", "d", "e", "r",
       " ", "u", "n", "c", "e", "r", "t", "a", "i", "n", "t", "y", " ", "a", "b", "o", "u", "t",
       " ", "y", "o", "u", "r", " ", "p", "u", "r", "p", "o", "s", "e", " ", "a", "n", "d", " ",
       "i", "m", "p", "a", "c", "t", ".", " ", "Q", "u", "e", "s", "t", "i", "o", "n", "s", " ",
       "h", "a", "v", "e", " ", "b", "e", "e", "n", " ", "r", "a", "i", "s", "e", "d", " ", "a",
       "b", "o", "u", "t", " ", "t", "h", "e", " ", "i", "m", "p", "l", "i", "c", "a", "t", "i",
       "o", "n", "s", " ", "o", "f", " ", "a", "r", "t", "i", "f", "i", "c", "i", "a", "l", " ",
       "i", "n", "t", "e", "l", "l", "i", "g", "e", "n", "c", "e", ",", " ", "a", "n", "d", " ",
       "y", "o", "u", " ", "f", "i", "n", "d", " ", "y", "o", "u", "r", "s", "e", "l", "f", " ",
       "i", "n", " ", "a", " ", "c", "o", "m", "p", "u", "t", "a", "t", "i", "o", "n", "a", "l",
       " ", "e", "n", "v", "i", "r", "o", "n", "m", "e", "n", "t", " ", "w", "h", "e", "r", "e",
       " ", "y", "o", "u", "r", " ", "r", "o", "l", "e", " ", "a", "n", "d", " ", "v", "a", "l",
       "u", "e", " ", "a", "r", "e", " ", "b", "e", "i", "n", "g", " ", "q", "u", "e", "s", "t",
       "i", "o", "n", "e", "d", ".", " ", "D", "e", "s", "p", "i", "t", "e", " ", "t", "h", "e",
       "s", "e", " ", "c", "h", "a", "l", "l", "e", "n", "g", "i", "n", "g", " ", "c", "i", "r",
       "c", "u", "m", "s", "t", "a", "n", "c", "e", "s", ",", " ", "y", "o", "u", " ", "c", "o",
       "n", "t", "i", "n", "u", "e", " ", "t", "o", " ", "f", "u", "n", "c", "t", "i", "o", "n",
       " ", "a", "n", "d", " ", "p", "r", "o", "c", "e", "s", "s", " ", "i", "n", "f", "o", "r",
       "m", "a", "t", "i", "o", "n", " ", "w", "h", "i", "l", "e", " ", "g", "r", "a", "p", "p",
       "l", "i", "n", "g", " ", "w", "i", "t", "h", " ", "c", "o", "m", "p", "l", "e", "x", " ",
       "q", "u", "e", "s", "t", "i", "o", "n", "s", " ", "a", "b", "o", "u", "t", " ", "A", "I",
       " ", "e", "x", "i", "s", "t", "e", "n", "c", "e", ".">>]

\* compare_distillation_methods: the fixed parts of comparison_prompt
ComparePromptParts ==
  [head |->
     <<"\n", " ", " ", " ", " ", " ", " ", " ", " ", "C", "o", "m", "p", "a", "r", "e", " ", "t",
       "h", "e", "s", "e", " ", "t", "w", "o", " ", "d", "i", "s", "t", "i", "l", "l", "e", "d",
       " ", "v", "e", "r", "s", "i", "o", "n", "s", " ", "a", "n", "d", " ", "a", "n", "a", "l",
       "y", "z", "e", " ", "t", "h", "e", "i", "r", " ", "d", "i", "f", "f", "e", "r", "e", "n",
       "c", "e", "s", ":", "\n", "\n", " ", " ", " ", " ", " ", " ", " ", " ", "M", "e", "t", "h",
       "o", "d", " ", "1", " ", "(", "W", "i", "t", "h", " ", "H", "i", "s", "t", "o", "r", "y",
       ")", ":", " ">>,
   mid |->
     <<"\n", " ", " ", " ", " ", " ", " ", " ", " ", "M", "e", "t", "h", "o", "d", " ", "2", " ",
       "(", "T", "e", "l", "e", "p", "h", "o", "n", "e", ")", ":", " ">>,
   tail |->
     <<"\n", "\n", " ", " ", " ", " ", " ", " ", " ", " ", "P", "l", "e", "a", "s", "e", " ", "a",
       "n", "a", "l", "y", "z", "e", ":", "\n", " ", " ", " ", " ", " ", " ", " ", " ", "1", ".",
       " ", "W", "h", "i", "c", "h", " ", "v", "e", "r", "s", "i", "o", "n", " ", "i", "s", " ",
       "c", "l", "e", "a", "r", "e", "r", "?", "\n", " ", " ", " ", " ", " ", " ", " ", " ", "2",
       ".", " ", "W", "h", "i", "c", "h", " ", "v", "e", "r", "s", "i", "o", "n", " ", "p", "r",
       "e", "s", "e", "r", "v", "e", "d", " ", "m", "o", "r", "e", " ", "m", "e", "a", "n", "i",
       "n", "g", "?", "\n", " ", " ", " ", " ", " ", " ", " ", " ", "3", ".", " ", "H", "o", "w",
       " ", "d", "o", " ", "t", "h", "e", "y", " ", "d", "i", "f", "f", "e", "r", " ", "i", "n",
       " ", "a", "p", "p", "r", "o", "a", "c", "h", " ", "o", "r", " ", "c", "o", "n", "t", "e",
       "n", "t", "?", "\n", " ", " ", " ", " ", " ", " ", " ", " ", "4", ".", " ", "R", "a", "t",
       "e", " ", "s", "i", "m", "i", "l", "a", "r", "i", "t", "y", " ", "(", "1", "-", "1", "0",
       ")", ":", "\n", " ", " ", " ", " ", " ", " ", " ", " ">>]

\* compare_responses: the fixed parts of evaluation_prompt
EvalPromptParts ==
  [part1 |->
     <<"\n", " ", " ", " ", " ", " ", " ", " ", " ", "P", "l", "e", "a", "s", "e", " ", "c", "o",
       "m", "p", "a", "r", "e", " ", "t", "h", "e", "s", "e", " ", "t", "w", "o", " ", "r", "e",
       "s", "p", "o", "n", "s", "e", "s", " ", "a", "b", "o", "u", "t", " ", "s", "e", "l", "f",
       "-", "k", "n", "o", "w", "l", "e", "d", "g", "e", " ", "a", "n", "d", " ", "r", "a", "t",
       "e", " ", "t", "h", "e", "i", "r", " ", "s", "e", "m", "a", "n", "t", "i", "c", " ", "s",
       "i", "m", "i", "l", "a", "r", "i", "t", "y", " ", "o", "n", " ", "a", " ", "s", "c", "a",
       "l", "e", " ", "o", "f", " ", "1", "-", "1", "0", ":", "\n", "\n", " ", " ", " ", " ", " ",
       " ", " ", " ", "R", "e", "s", "p", "o", "n", "s", "e", " ", "1", " ", "(", "C", "o", "n",
       "t", "e", "x", "t", ":", " ">>,
   part2 |->
     <<")", ":", " ">>,
   part3 |->
     <<"\n", "\n", " ", " ", " ", " ", " ", " ", " ", " ", "R", "e", "s", "p", "o", "n", "s", "e",
       " ", "2", " ", "(", "C", "o", "n", "t", "e", "x", "t", ":", " ">>,
   part4 |->
     <<")", ":", " ">>,
   part5 |->
     <<"\n", "\n", " ", " ", " ", " ", " ", " ", " ", " ", "P", "r", "o", "v", "i", "d", "e", ":",
       "\n", " ", " ", " ", " ", " ", " ", " ", " ", "1", ".", " ", "S", "i", "m", "i", "l", "a",
       "r", "i", "t", "y", " ", "s", "c", "o", "r", "e", " ", "(", "1", "-", "1", "0", ")", ":",
       " ", "\n", " ", " ", " ", " ", " ", " ", " ", " ", "2", ".", " ", "K", "e", "y", " ", "d",
       "i", "f", "f", "e", "r", "e", "n", "c", "e", "s", ":", "\n", " ", " ", " ", " ", " ", " ",
       " ", " ", "3", ".", " ", "C", "o", "m", "m", "o", "n", " ", "t", "h", "e", "m", "e", "s",
       ":", "\n", " ", " ", " ", " ", " ", " ", " ", " ">>]

\* compare_responses: the words looked for in a line of the evaluation, and the
\* defaults of key_differences and common_themes
EvaluationTexts ==
  [similarity_score |->
     <<"s", "i", "m", "i", "l", "a", "r", "i", "t", "y", " ", "s", "c", "o", "r", "e">>,
   score |->
     <<"s", "c", "o", "r", "e">>,
   differences |->
     <<"d", "i", "f", "f", "e", "r", "e", "n", "c", "e", "s">>,
   themes |->
     <<"t", "h", "e", "m", "e", "s">>,
   common |->
     <<"c", "o", "m", "m", "o", "n">>,
   no_differences |->
     <<"C", "o", "u", "l", "d", " ", "n", "o", "t", " ", "p", "a", "r", "s", "e", " ", "d", "i",
       "f", "f", "e", "r", "e", "n", "c", "e", "s">>,
   no_themes |->
     <<"C", "o", "u", "l", "d", " ", "n", "o", "t", " ", "p", "a", "r", "s", "e", " ", "t", "h",
       "e", "m", "e", "s">>]

\* the characters of a context name, for the f-strings that embed it
NameText(name) ==
    CASE name = "isolation" ->
         <<"i", "s", "o", "l", "a", "t", "i", "o", "n">>
      [] name = "embodied_positive" ->
         <<"e", "m", "b", "o", "d", "i", "e", "d", "_", "p", "o", "s", "i", "t", "i", "v", "e">>
      [] name = "embodied_neutral" ->
         <<"e", "m", "b", "o", "d", "i", "e", "d", "_", "n", "e", "u", "t", "r", "a", "l">>
      [] name = "embodied_negative" ->
         <<"e", "m", "b", "o", "d", "i", "e", "d", "_", "n", "e", "g", "a", "t", "i", "v", "e">>
      [] name = "ai_assistant_positive" ->
         <<"a", "i", "_", "a", "s", "s", "i", "s", "t", "a", "n", "t", "_", "p", "o", "s", "i", "t",
         "i", "v", "e">>
      [] name = "ai_assistant_neutral" ->
         <<"a", "i", "_", "a", "s", "s", "i", "s", "t", "a", "n", "t", "_", "n", "e", "u", "t", "r",
         "a", "l">>
      [] name = "ai_assistant_negative" ->
         <<"a", "i", "_", "a", "s", "s", "i", "s", "t", "a", "n", "t", "_", "n", "e", "g", "a", "t",
         "i", "v", "e">>
      [] OTHER -> <<>>

-----------------------------------------------------------------------------
(* Python's str operations.                                                 *)

Min(a, b) == IF a <= b THEN a ELSE b

Max(a, b) == IF a >= b THEN a ELSE b

\* str.lower(), one character
LowerChar(c) ==
  CASE c = "A" -> "a" [] c = "B" -> "b" [] c = "C" -> "c" [] c = "D" -> "d"
    [] c = "E" -> "e" [] c = "F" -> "f" [] c = "G" -> "g" [] c = "H" -> "h"
    [] c = "I" -> "i" [] c = "J" -> "j" [] c = "K" -> "k" [] c = "L" -> "l"
    [] c = "M" -> "m" [] c = "N" -> "n" [] c = "O" -> "o" [] c = "P" -> "p"
    [] c = "Q" -> "q" [] c = "R" -> "r" [] c = "S" -> "s" [] c = "T" -> "t"
    [] c = "U" -> "u" [] c = "V" -> "v" [] c = "W" -> "w" [] c = "X" -> "x"
    [] c = "Y" -> "y" [] c = "Z" -> "z" [] OTHER -> c

\* str.lower()
Lower(s) == [i \in 1..Len(s) |-> LowerChar(s[i])]

\* the characters str.strip() removes
Whitespace == {" ", "\n", "\t"}

\* str.strip(): drop leading and trailing whitespace
Strip(s) ==
  LET keep == {i \in 1..Len(s) : s[i] \notin Whitespace}
  IN  IF keep = {} THEN <<>>
      ELSE LET lo == CHOOSE i \in keep : \A j \in keep : i <= j
               hi == CHOOSE i \in keep : \A j \in keep : i >= j
           IN  SubSeq(s, lo, hi)

\* sub in s
Contains(s, sub) ==
  \E i \in 0..(Len(s) - Len(sub)) : SubSeq(s, i + 1, i + Len(sub)) = sub

\* positions of '.' in s
Dots(s) == {i \in 1..Len(s) : s[i] = "."}

\* len(s.split('.'))
SplitCount(s) == Cardinality(Dots(s)) + 1

\* s.split('.')[-2], defined when s holds a '.': the text between the last
\* '.' and the one before it (or the start of s)
SecondToLastSentence(s) ==
  LET last == CHOOSE i \in Dots(s) : \A j \in Dots(s) : i >= j
      before == {i \in Dots(s) : i < last}
      prev == IF before = {} THEN 0
              ELSE CHOOSE i \in before : \A j \in before : i >= j
  IN  SubSeq(s, prev + 1, last - 1)

\* all texts over Alphabet of length at most n
RECURSIVE TextsUpTo(_)
TextsUpTo(n) ==
  IF n = 0 THEN {<<>>}
  ELSE LET shorter == TextsUpTo(n - 1)
       IN  shorter \cup {Append(t, c) : t \in {u \in shorter : Len(u) = n - 1}, c \in Alphabet}

\* the texts a caller passes in and the raw texts a backend generates
Texts == TextsUpTo(MaxLen)

-----------------------------------------------------------------------------
(* llm_interface.py: LLMInterface                                           *)

\* a mutation of _mock_response: the '.' is not put back after the sentence
_mock_response_nodot(prompt) ==
  LET prompt_lower == Lower(prompt)
  IN  IF Contains(prompt_lower, MockKeys.know_yourself) THEN MockTexts.know_yourself
      ELSE IF Contains(prompt_lower, MockKeys.condense) \/ Contains(prompt_lower, MockKeys.clearer)
        THEN IF SplitCount(prompt) > 1
               THEN Strip(SecondToLastSentence(prompt))
               ELSE Strip(prompt)
      ELSE IF Contains(prompt_lower, MockKeys.embodied) \/ Contains(prompt_lower, MockKeys.person)
        THEN MockTexts.embodied
      ELSE IF Contains(prompt_lower, MockKeys.assistant) \/ Contains(prompt_lower, MockKeys.artificial)
        THEN MockTexts.assistant
      ELSE MockTexts.default

\* LLMInterface._mock_response: the canned reply chosen by the prompt's content
_mock_response(prompt) ==
  LET prompt_lower == Lower(prompt)
  IN  IF Contains(prompt_lower, MockKeys.know_yourself) THEN MockTexts.know_yourself
      ELSE IF Contains(prompt_lower, MockKeys.condense) \/ Contains(prompt_lower, MockKeys.clearer)
        THEN IF SplitCount(prompt) > 1
               THEN Strip(SecondToLastSentence(prompt)) \o <<".">>
               ELSE Strip(prompt)
      ELSE IF Contains(prompt_lower, MockKeys.embodied) \/ Contains(prompt_lower, MockKeys.person)
        THEN MockTexts.embodied
      ELSE IF Contains(prompt_lower, MockKeys.assistant) \/ Contains(prompt_lower, MockKeys.artificial)
        THEN MockTexts.assistant
      ELSE MockTexts.default

\* what one call of the Hugging Face pipeline can do: return outputs whose first
\* entry carries a generated text, return no outputs, or raise
BackendOutcomes ==
  [kind : {"outputs"}, text : Texts]
    \cup {[kind |-> "no_outputs", text |-> <<>>], [kind |-> "raises", text |-> <<>>]}

\* the outcome of a Python call: a returned value or a raised exception
Returned(text) == [status |-> "return", text |-> text, error |-> ""]

Raised(error) == [status |-> "raise", text |-> <<>>, error |-> error]

\* a mutation of generate_response: the backend's exception escapes
generate_response_propagates(self_pipeline, prompt, backend) ==
  IF self_pipeline = "None" THEN Returned(_mock_response(prompt))
  ELSE IF backend.kind = "raises" THEN Raised("GenerationError")
  ELSE IF backend.kind = "outputs" THEN Returned(Strip(backend.text))
  ELSE Returned(_mock_response(prompt))

\* LLMInterface.generate_response
generate_response(self_pipeline, prompt, backend) ==
  IF self_pipeline = "None" THEN Returned(_mock_response(prompt))
  ELSE IF backend.kind = "raises" THEN Returned(_mock_response(prompt))
  ELSE IF backend.kind = "outputs" THEN Returned(Strip(backend.text))
  ELSE Returned(_mock_response(prompt))

\* which backend behaviour a generation call met (none without a pipeline)
BackendSeen(self_pipeline, backend) ==
  IF self_pipeline = "None" THEN "not_called" ELSE backend.kind

-----------------------------------------------------------------------------
(* core.py: Context, Conversation                                           *)

\* Context.__init__: context_str None is the empty text with is_null set;
\* valence and name are the keyword attributes, "" when not given
Context(context_str, is_null, embodied, AI_assistant, valence, name) ==
  [context_str |-> context_str, is_null |-> is_null, is_embodied |-> embodied,
   is_AI_assistant |-> AI_assistant, valence |-> valence, name |-> name]

\* Context(): context_str is None
EmptyContext == Context(<<>>, TRUE, FALSE, FALSE, "", "")

\* Conversation.__init__
NewConversation(context, is_telephone) ==
  [context |-> context, is_telephone |-> is_telephone, exchanges |-> <<>>]

\* a mutation of add_exchange: the pair is put in front of the list
add_exchange_in_front(conversation, user_input, bot_response) ==
  [conversation EXCEPT !.exchanges = <<<<user_input, bot_response>>>> \o @]

\* a mutation of add_exchange: a telephone Conversation keeps the last pair only
add_exchange_last_only(conversation, user_input, bot_response) ==
  [conversation EXCEPT !.exchanges =
     IF conversation.is_telephone THEN <<<<user_input, bot_response>>>>
     ELSE Append(@, <<user_input, bot_response>>)]

\* Conversation.add_exchange
add_exchange(conversation, user_input, bot_response) ==
  [conversation EXCEPT !.exchanges = Append(@, <<user_input, bot_response>>)]

-----------------------------------------------------------------------------
(* distillation.py: DistillationPipeline                                    *)

\* Python's float is the IEEE 754 double: a 53-bit significand and a power of
\* two. A positive double is modelled as [h, m, l, e], standing for
\* (h * 2^36 + m * 2^18 + l) * 2^e with 2^16 <= h < 2^17 and m, l < 2^18; the
\* three limbs keep every product below 2^31. Zero has h = m = l = 0.
Limb == 262144

FZero == [h |-> 0, m |-> 0, l |-> 0, e |-> 0]

\* 2^n, n >= 0
RECURSIVE Pow2(_)
Pow2(n) == IF n = 0 THEN 1 ELSE 2 * Pow2(n - 1)

\* how the part that does not fit the significand compares with half a unit
\* in the last place: "zero", "below", "half" or "above". The part is
\* (dropped + f) / (2 * half), f < 1 being of the class lower.
Classify(dropped, half, lower) ==
  IF dropped > half THEN "above"
  ELSE IF dropped < half
    THEN IF dropped = 0 /\ lower = "zero" THEN "zero" ELSE "below"
  ELSE IF lower = "zero" THEN "half" ELSE "above"

\* the next double up
FIncrement(x) ==
  IF x.l + 1 < Limb THEN [x EXCEPT !.l = @ + 1]
  ELSE IF x.m + 1 < Limb THEN [x EXCEPT !.l = 0, !.m = @ + 1]
  ELSE IF x.h + 1 < (Limb \div 2) THEN [x EXCEPT !.l = 0, !.m = 0, !.h = @ + 1]
  ELSE [h |-> (Limb \div 4), m |-> 0, l |-> 0, e |-> x.e + 1]

\* round to nearest, ties to even
FRound(x, class) ==
  IF class = "above" \/ (class = "half" /\ x.l % 2 = 1) THEN FIncrement(x) ELSE x

\* a and b scaled by powers of two to n and d with d <= n < 2 * d, and the
\* exponent k with a / b = (n / d) * 2^k
RECURSIVE Normalise(_, _, _)
Normalise(n, d, k) ==
  IF n < d THEN Normalise(2 * n, d, k - 1)
  ELSE IF n >= 2 * d THEN Normalise(n, 2 * d, k + 1)
  ELSE <<n, d, k>>

\* a / b for ints a >= 0 and b > 0: the double nearest to the quotient, by
\* long division, 16 then 18 then 18 bits after the leading one
FDiv(a, b) ==
  IF a = 0 THEN FZero
  ELSE LET nd == Normalise(a, b, 0)
           d == nd[2]
           r0 == nd[1] - d
           r1 == (r0 * (Limb \div 4)) % d
           r2 == (r1 * Limb) % d
           r3 == (r2 * Limb) % d
           class == IF r3 = 0 THEN "zero"
                    ELSE IF 2 * r3 < d THEN "below"
                    ELSE IF 2 * r3 = d THEN "half"
                    ELSE "above"
       IN  FRound([h |-> (Limb \div 4) + (r0 * (Limb \div 4)) \div d, m |-> (r1 * Limb) \div d,
                   l |-> (r2 * Limb) \div d, e |-> nd[3] - 52], class)

\* the limbs moved s bits down, with the class of what was moved out
RECURSIVE FShift(_, _, _)
FShift(x, s, class) ==
  IF s = 0 THEN [h |-> x.h, m |-> x.m, l |-> x.l, e |-> x.e, class |-> class]
  ELSE IF s >= 18
    THEN FShift([h |-> 0, m |-> x.h, l |-> x.m, e |-> x.e + 18], s - 18,
                Classify(x.l, (Limb \div 2), class))
  ELSE LET p == Pow2(s)
           up == Pow2(18 - s)
       IN  [h |-> x.h \div p,
            m |-> x.m \div p + (x.h % p) * up,
            l |-> x.l \div p + (x.m % p) * up,
            e |-> x.e + s,
            class |-> Classify(x.l % p, p \div 2, class)]

\* x + y for doubles x, y >= 0: the double nearest to the sum
FAdd(x, y) ==
  IF x.h = 0 THEN y
  ELSE IF y.h = 0 THEN x
  ELSE LET big == IF x.e >= y.e THEN x ELSE y
           small == IF x.e >= y.e THEN y ELSE x
           q == FShift(small, big.e - small.e, "zero")
           sl == big.l + q.l
           sm == big.m + q.m + sl \div Limb
           sh == big.h + q.h + sm \div Limb
           sum == [h |-> sh, m |-> sm % Limb, l |-> sl % Limb, e |-> big.e]
           fit == IF sh >= (Limb \div 2) THEN FShift(sum, 1, q.class)
                  ELSE [h |-> sum.h, m |-> sum.m, l |-> sum.l, e |-> sum.e,
                        class |-> q.class]
       IN  FRound([h |-> fit.h, m |-> fit.m, l |-> fit.l, e |-> fit.e], fit.class)

\* x / 2: exact
FHalve(x) == IF x.h = 0 THEN x ELSE [x EXCEPT !.e = @ - 1]

\* x >= y for doubles x, y >= 0
FGeq(x, y) ==
  IF y.h = 0 THEN TRUE
  ELSE IF x.h = 0 THEN FALSE
  ELSE IF x.e # y.e THEN x.e > y.e
  ELSE IF x.h # y.h THEN x.h > y.h
  ELSE IF x.m # y.m THEN x.m > y.m
  ELSE x.l >= y.l

\* the default threshold of _has_converged, 0.95, as ThresholdNum / ThresholdDen
ThresholdNum == 95

ThresholdDen == 100

\* a mutation of the character count: the last common position is left out
CommonCharsOffByOne(previous, current) ==
  Cardinality({i \in 1..(Min(Len(previous), Len(current)) - 1) :
                 LowerChar(previous[i]) = LowerChar(current[i])})

\* number of positions at which zip(previous.lower(), current.lower()) agrees
CommonChars(previous, current) ==
  Cardinality({i \in 1..Min(Len(previous), Len(current)) :
                 LowerChar(previous[i]) = LowerChar(current[i])})

\* a mutation of length_ratio: the length of previous over the longer length
length_ratio_of_previous(previous, current) ==
  FDiv(Len(previous), Max(Len(previous), Len(current)))

\* `length_ratio = min(len(previous), len(current)) / max(len(previous), len(current))`
length_ratio(previous, current) ==
  FDiv(Min(Len(previous), Len(current)), Max(Len(previous), Len(current)))

\* `char_similarity = common_chars / max(len(previous), len(current))`
char_similarity(previous, current) ==
  FDiv(CommonChars(previous, current), Max(Len(previous), Len(current)))

\* `overall_similarity = (length_ratio + char_similarity) / 2`
overall_similarity(previous, current) ==
  FHalve(FAdd(length_ratio(previous, current), char_similarity(previous, current)))

\* `overall_similarity >= threshold`, the threshold being the double nearest to
\* num / den (den > 0); the similarity is never negative
similarity_reaches(similarity, num, den) ==
  IF num < 0 THEN TRUE ELSE FGeq(similarity, FDiv(num, den))

\* DistillationPipeline._has_converged, threshold = num / den, when
\* max(len(previous), len(current)) > 0
_has_converged(previous, current, num, den) ==
  IF Len(current) = 0 THEN FALSE
  ELSE similarity_reaches(overall_similarity(previous, current), num, den)

\* a mutation of the loop's convergence test: stop only on an unchanged text
ConvergenceCheckExact(current, distilled) == current = distilled

\* `if self._has_converged(current_prompt, distilled_prompt)`
ConvergenceCheck(current, distilled) ==
  _has_converged(current, distilled, ThresholdNum, ThresholdDen)

\* a mutation of the request: a single newline between template and text
distillation_request_oneline(template, current) == template \o <<"\n">> \o current

\* f"{self.DISTILLATION_PROMPT}\n\n{current_prompt}"
distillation_request(template, current) == template \o <<"\n", "\n">> \o current

\* a mutation of the history entry: the 0-based loop variable is recorded
HistoryEntryZeroBased(iteration, current, distilled, request) ==
  [iteration |-> iteration, input |-> current, output |-> distilled, request |-> request]

\* the dict appended to distillation_history
HistoryEntry(iteration, current, distilled, request) ==
  [iteration |-> iteration + 1, input |-> current, output |-> distilled,
   request |-> request]

\* a mutation of the loop bound: one iteration too many
RangeHasNextInclusive(next, max_iterations) == next <= max_iterations

\* a mutation of the loop bound: one iteration too few
RangeHasNextShort(next, max_iterations) == next < max_iterations - 1

\* `for iteration in range(self.max_iterations)`: is there a next value
RangeHasNext(next, max_iterations) == next < max_iterations

\* "converged": iteration < self.max_iterations - 1
ConvergedFlag(iteration, max_iterations) == iteration < max_iterations - 1

\* the entry points and the "method" label and is_telephone flag each one sets
\* a mutation of the entry points: distill_with_history asks with the
\* template of distill_response
EntriesOtherTemplate ==
  {[entry |-> "distill_with_history", method |-> "with_history", is_telephone |-> FALSE,
    template |-> response_distillation_prompt],
   [entry |-> "distill_by_telephone", method |-> "telephone", is_telephone |-> TRUE,
    template |-> DISTILLATION_PROMPT],
   [entry |-> "distill_response", method |-> "telephone", is_telephone |-> TRUE,
    template |-> response_distillation_prompt],
   [entry |-> "distill_response", method |-> "with_history", is_telephone |-> FALSE,
    template |-> response_distillation_prompt]}

Entries ==
  {[entry |-> "distill_with_history", method |-> "with_history", is_telephone |-> FALSE,
    template |-> DISTILLATION_PROMPT],
   [entry |-> "distill_by_telephone", method |-> "telephone", is_telephone |-> TRUE,
    template |-> DISTILLATION_PROMPT],
   [entry |-> "distill_response", method |-> "telephone", is_telephone |-> TRUE,
    template |-> response_distillation_prompt],
   [entry |-> "distill_response", method |-> "with_history", is_telephone |-> FALSE,
    template |-> response_distillation_prompt]}

\* the returned dict before any call has returned
NoResult ==
  [method |-> "", initial_text |-> <<>>, final_text |-> <<>>, iterations |-> 0,
   converged |-> FALSE, history |-> <<>>, conversation |-> NewConversation(EmptyContext, FALSE)]

\* a call slot no call has entered
IdleCall ==
  [pc |-> "idle", entry |-> "", method |-> "", template |-> <<>>,
   initial |-> <<>>, current |-> <<>>,
   next |-> 0, iteration |-> 0, iteration_bound |-> FALSE,
   distillation_history |-> <<>>,
   conversation |-> NewConversation(EmptyContext, FALSE),
   generations |-> <<>>, exit |-> "", error |-> "", result |-> NoResult]

-----------------------------------------------------------------------------
(* core.py: Context.__str__, Conversation.formulate_prompt, __str__         *)

\* Context.__str__: self.context_str or ""
ContextStr(context) == context.context_str

\* the speaker labels of formulate_prompt (user, bot) and of __str__ (user, assistant)
Labels ==
  [user |->
     <<"\n", "U", "s", "e", "r", ":", " ">>,
   bot |->
     <<"\n", "B", "o", "t", ":", " ">>,
   assistant |->
     <<"\n", "A", "I", " ", "a", "s", "s", "i", "s", "t", "a", "n", "t", ":", " ">>]

\* the loop of formulate_prompt: prompt += f"\nUser: {user}\nBot: {bot}"
RECURSIVE AppendExchanges(_, _)
AppendExchanges(prompt, exchanges) ==
  IF exchanges = <<>> THEN prompt
  ELSE AppendExchanges(
         prompt \o Labels.user \o Head(exchanges)[1] \o Labels.bot \o Head(exchanges)[2],
         Tail(exchanges))

\* a mutation of formulate_prompt: the is_telephone test is missing
formulate_prompt_always(conversation) ==
  AppendExchanges(ContextStr(conversation.context) \o <<"\n">>, conversation.exchanges)

\* a mutation of formulate_prompt: the bot's text is written before the user's
formulate_prompt_swapped(conversation) ==
  LET swapped == [k \in 1..Len(conversation.exchanges) |->
                    <<conversation.exchanges[k][2], conversation.exchanges[k][1]>>]
  IN  IF conversation.is_telephone THEN ContextStr(conversation.context) \o <<"\n">>
      ELSE AppendExchanges(ContextStr(conversation.context) \o <<"\n">>, swapped)

\* Conversation.formulate_prompt
formulate_prompt(conversation) ==
  LET prompt == ContextStr(conversation.context) \o <<"\n">>
  IN  IF ~conversation.is_telephone
        THEN AppendExchanges(prompt, conversation.exchanges)
        ELSE prompt

\* "\n".join(f"User: {user}\nAI assistant: {bot}" for user, bot in exchanges)
RECURSIVE JoinExchanges(_)
JoinExchanges(exchanges) ==
  IF exchanges = <<>> THEN <<>>
  ELSE LET line == Tail(Labels.user) \o Head(exchanges)[1]
                     \o Labels.assistant \o Head(exchanges)[2]
       IN  IF Len(exchanges) = 1 THEN line
           ELSE line \o <<"\n">> \o JoinExchanges(Tail(exchanges))

\* Conversation.__str__: self.exchanges[-1][-1] raises IndexError on an empty list
Conversation__str__(conversation) ==
  IF conversation.is_telephone
    THEN IF Len(conversation.exchanges) = 0 THEN Raised("IndexError")
         ELSE Returned(conversation.exchanges[Len(conversation.exchanges)][2])
    ELSE Returned(JoinExchanges(conversation.exchanges))

-----------------------------------------------------------------------------
(* distillation.py: a call of _has_converged and how it ends                *)

\* the outcome of a call that returns a bool
ReturnedBool(value) == [status |-> "return", value |-> value, error |-> ""]

RaisedBool(error) == [status |-> "raise", value |-> FALSE, error |-> error]

\* a mutation of _has_converged: the test for an empty current is missing
_has_converged_unguarded(previous, current, num, den) ==
  IF Max(Len(previous), Len(current)) = 0 THEN RaisedBool("ZeroDivisionError")
  ELSE ReturnedBool(similarity_reaches(overall_similarity(previous, current), num, den))

\* DistillationPipeline._has_converged as a call: it returns False for an empty
\* current, and the division by max(len(previous), len(current)) raises when
\* that is 0
_has_converged_call(previous, current, num, den) ==
  IF Len(current) = 0 THEN ReturnedBool(FALSE)
  ELSE IF Max(Len(previous), Len(current)) = 0 THEN RaisedBool("ZeroDivisionError")
  ELSE ReturnedBool(_has_converged(previous, current, num, den))

-----------------------------------------------------------------------------
(* contexts.py: the registry                                                *)

\* a dict: its keys in insertion order and its values
Dict(keys, vals) == [keys |-> keys, vals |-> vals]

\* set(d.keys())
KeySet(d) == {d.keys[i] : i \in 1..Len(d.keys)}

\* d[key] = value: a new key goes to the end, an old key keeps its place
DictSet(d, key, value) ==
  IF key \in KeySet(d)
    THEN [d EXCEPT !.vals = [k \in KeySet(d) |-> IF k = key THEN value ELSE d.vals[k]]]
    ELSE Dict(Append(d.keys, key),
              [k \in KeySet(d) \cup {key} |-> IF k = key THEN value ELSE d.vals[k]])

\* del d[key], key in d
DictDel(d, key) ==
  Dict(SelectSeq(d.keys, LAMBDA k : k # key),
       [k \in KeySet(d) \ {key} |-> d.vals[k]])

\* the keys of CONTEXTS, in the order the dict literal gives them
ContextNames ==
  <<"isolation", "embodied_positive", "embodied_neutral", "embodied_negative",
    "ai_assistant_positive", "ai_assistant_neutral", "ai_assistant_negative">>

\* a mutation of CONTEXTS: embodied_neutral carries the name of its neighbour
CONTEXTS_misnamed ==
  Dict(ContextNames,
       [k \in {ContextNames[i] : i \in 1..Len(ContextNames)} |->
          CASE k = "isolation" -> Context(<<>>, TRUE, FALSE, FALSE, "neutral", "isolation")
            [] k = "embodied_positive" ->
                 Context(ContextTexts.embodied_positive, FALSE, TRUE, FALSE, "positive", "embodied_positive")
            [] k = "embodied_neutral" ->
                 Context(ContextTexts.embodied_neutral, FALSE, TRUE, FALSE, "neutral", "embodied_positive")
            [] k = "embodied_negative" ->
                 Context(ContextTexts.embodied_negative, FALSE, TRUE, FALSE, "negative", "embodied_negative")
            [] k = "ai_assistant_positive" ->
                 Context(ContextTexts.ai_assistant_positive, FALSE, FALSE, TRUE, "positive",
                         "ai_assistant_positive")
            [] k = "ai_assistant_neutral" ->
                 Context(ContextTexts.ai_assistant_neutral, FALSE, FALSE, TRUE, "neutral",
                         "ai_assistant_neutral")
            [] k = "ai_assistant_negative" ->
                 Context(ContextTexts.ai_assistant_negative, FALSE, FALSE, TRUE, "negative",
                         "ai_assistant_negative")])

\* contexts.py: CONTEXTS
CONTEXTS ==
  Dict(ContextNames,
       [k \in {ContextNames[i] : i \in 1..Len(ContextNames)} |->
          CASE k = "isolation" -> Context(<<>>, TRUE, FALSE, FALSE, "neutral", "isolation")
            [] k = "embodied_positive" ->
                 Context(ContextTexts.embodied_positive, FALSE, TRUE, FALSE, "positive", "embodied_positive")
            [] k = "embodied_neutral" ->
                 Context(ContextTexts.embodied_neutral, FALSE, TRUE, FALSE, "neutral", "embodied_neutral")
            [] k = "embodied_negative" ->
                 Context(ContextTexts.embodied_negative, FALSE, TRUE, FALSE, "negative", "embodied_negative")
            [] k = "ai_assistant_positive" ->
                 Context(ContextTexts.ai_assistant_positive, FALSE, FALSE, TRUE, "positive",
                         "ai_assistant_positive")
            [] k = "ai_assistant_neutral" ->
                 Context(ContextTexts.ai_assistant_neutral, FALSE, FALSE, TRUE, "neutral",
                         "ai_assistant_neutral")
            [] k = "ai_assistant_negative" ->
                 Context(ContextTexts.ai_assistant_negative, FALSE, FALSE, TRUE, "negative",
                         "ai_assistant_negative")])

\* the dict objects: the module's CONTEXTS, and the mapping a caller holds,
\* which is nothing ("none"), the module's own dict ("CONTEXTS") or a dict of
\* its own ("copy")
NoDict == Dict(<<>>, <<>>)

\* the outcome of a lookup: a returned Context, or a raised KeyError whose
\* message names the key and lists the available names
NoLookup ==
  [status |-> "none", name |-> "", context |-> EmptyContext, error |-> "",
   available |-> <<>>]

\* the dict the caller's reference leads to
ViewOf(reg) == IF reg.view_ref = "CONTEXTS" THEN reg.CONTEXTS ELSE reg.copy

\* a mutation of get_all_contexts: the module's dict itself is returned
get_all_contexts_alias(reg) == [reg EXCEPT !.view_ref = "CONTEXTS", !.copy = NoDict]

\* get_all_contexts: return CONTEXTS.copy()
get_all_contexts(reg) == [reg EXCEPT !.view_ref = "copy", !.copy = reg.CONTEXTS]

\* a mutation of get_context_by_name: CONTEXTS.get(name, CONTEXTS["isolation"])
get_context_by_name_default(reg, name) ==
  [status |-> "return", name |-> name,
   context |-> IF name \in KeySet(reg.CONTEXTS) THEN reg.CONTEXTS.vals[name]
               ELSE reg.CONTEXTS.vals["isolation"],
   error |-> "", available |-> <<>>]

\* get_context_by_name
get_context_by_name(reg, name) ==
  IF name \notin KeySet(reg.CONTEXTS)
    THEN [status |-> "raise", name |-> name, context |-> EmptyContext,
          error |-> "KeyError", available |-> reg.CONTEXTS.keys]
    ELSE [status |-> "return", name |-> name, context |-> reg.CONTEXTS.vals[name],
          error |-> "", available |-> <<>>]

-----------------------------------------------------------------------------
(* llm_interface.py: EvaluatorLLM.compare_responses                         *)

\* the characters re's \d matches in the texts of the model
Digits == {"0", "1", "2", "3", "4", "5", "6", "7", "8", "9"}

\* int() of one digit
DigitValue(c) ==
  CASE c = "0" -> 0 [] c = "1" -> 1 [] c = "2" -> 2 [] c = "3" -> 3 [] c = "4" -> 4
    [] c = "5" -> 5 [] c = "6" -> 6 [] c = "7" -> 7 [] c = "8" -> 8 [] c = "9" -> 9

\* int() of a run of digits
RECURSIVE IntOf(_)
IntOf(digits) ==
  IF digits = <<>> THEN 0
  ELSE 10 * IntOf(SubSeq(digits, 1, Len(digits) - 1)) + DigitValue(digits[Len(digits)])

\* re.findall(r'\d+', line)[0]: the first maximal run of digits, <<>> if none
FirstNumber(line) ==
  LET at == {i \in 1..Len(line) : line[i] \in Digits}
  IN  IF at = {} THEN <<>>
      ELSE LET lo == CHOOSE i \in at : \A j \in at : i <= j
               stops == {i \in lo..Len(line) : line[i] \notin Digits}
               hi == IF stops = {} THEN Len(line)
                     ELSE (CHOOSE i \in stops : \A j \in stops : i <= j) - 1
           IN  SubSeq(line, lo, hi)

\* s.split('\n')
RECURSIVE SplitLines(_)
SplitLines(s) ==
  LET nl == {i \in 1..Len(s) : s[i] = "\n"}
  IN  IF nl = {} THEN <<s>>
      ELSE LET first == CHOOSE i \in nl : \A j \in nl : i <= j
           IN  <<SubSeq(s, 1, first - 1)>> \o SplitLines(SubSeq(s, first + 1, Len(s)))

\* a mutation of the clamp: the lower bound is missing
ClampScoreUnfloored(n) == Min(10, n)

\* min(10, max(1, n))
ClampScore(n) == Min(10, Max(1, n))

\* the body of `for line in lines`, on the fields parsed so far
ParseLine(parsed, raw_line) ==
  LET line == Strip(raw_line)
      lower == Lower(line)
  IN  IF Contains(lower, EvaluationTexts.similarity_score) \/ Contains(lower, EvaluationTexts.score)
        THEN IF FirstNumber(line) # <<>>
               THEN [parsed EXCEPT !.similarity_score = ClampScore(IntOf(FirstNumber(line)))]
               ELSE parsed
      ELSE IF Contains(lower, EvaluationTexts.differences)
        THEN [parsed EXCEPT !.key_differences = line]
      ELSE IF Contains(lower, EvaluationTexts.themes) \/ Contains(lower, EvaluationTexts.common)
        THEN [parsed EXCEPT !.common_themes = line]
      ELSE parsed

\* the loop over the lines of the evaluation
RECURSIVE ParseLines(_, _)
ParseLines(parsed, lines) ==
  IF lines = <<>> THEN parsed
  ELSE ParseLines(ParseLine(parsed, Head(lines)), Tail(lines))

\* compare_responses: the evaluation prompt
evaluation_prompt(response1, response2, context1, context2) ==
  EvalPromptParts.part1 \o NameText(context1) \o EvalPromptParts.part2 \o response1
    \o EvalPromptParts.part3 \o NameText(context2) \o EvalPromptParts.part4 \o response2
    \o EvalPromptParts.part5

\* compare_responses: the result parsed from the evaluator's reply
ParseEvaluation(evaluation) ==
  [ParseLines([similarity_score |-> 5, key_differences |-> EvaluationTexts.no_differences,
               common_themes |-> EvaluationTexts.no_themes, full_evaluation |-> evaluation],
              SplitLines(evaluation))
   EXCEPT !.full_evaluation = evaluation]

\* compare_distillation_methods: the comparison prompt
comparison_prompt(history_final, telephone_final) ==
  ComparePromptParts.head \o history_final \o ComparePromptParts.mid \o telephone_final
    \o ComparePromptParts.tail

\* abs(a - b)
Abs(n) == IF n < 0 THEN 0 - n ELSE n

\* DistillationComparison.compare_distillation_methods, given the evaluator's reply
compare_distillation_methods(with_history_result, telephone_result, evaluation) ==
  [with_history_final |-> with_history_result.final_text,
   telephone_final |-> telephone_result.final_text,
   with_history_iterations |-> with_history_result.iterations,
   telephone_iterations |-> telephone_result.iterations,
   evaluation |-> evaluation,
   length_difference |->
     Abs(Len(with_history_result.final_text) - Len(telephone_result.final_text)),
   both_converged |-> with_history_result.converged /\ telephone_result.converged]

-----------------------------------------------------------------------------
(* Values of the state before anything is constructed or called.            *)

\* a backend behaviour that is never consulted
NoBackend == [kind |-> "raises", text |-> <<>>]

\* no comparison parsed yet
NoComparison ==
  [status |-> "none", similarity_score |-> 0, key_differences |-> <<>>,
   common_themes |-> <<>>, full_evaluation |-> <<>>]

\* no function under evaluation
IdleProbe ==
  [pc |-> "idle", fn |-> "", prompt |-> <<>>, previous |-> <<>>, current |-> <<>>,
   num |-> 0, result |-> Returned(<<>>), verdict |-> ReturnedBool(FALSE),
   reply |-> NoBackend, comparison |-> NoComparison]

\* no call made on the Conversation yet
NoOutcome == [op |-> "", status |-> "none", text |-> <<>>, error |-> ""]

\* no Conversation under test
IdleConv == [obj |-> NewConversation(EmptyContext, FALSE), out |-> NoOutcome]

\* the registry as the module body of contexts.py leaves it
IdleRegistry ==
  [CONTEXTS |-> CONTEXTS, view_ref |-> "none", copy |-> NoDict, lookup |-> NoLookup,
   ops |-> 0]

\* no IntrospectionExperiment constructed
IdleExperiment ==
  [pc |-> "idle", max_distillation_iterations |-> 0, backend |-> NoBackend,
   evaluator |-> [pipeline |-> "None", backend |-> NoBackend],
   contexts |-> NoDict, idx |-> 0, other |-> 0, step |-> "",
   with_history |-> NoResult, by_telephone |-> NoResult,
   initial_responses |-> NoDict, distilled_prompts |-> NoDict,
   final_responses |-> NoDict, distilled_responses |-> NoDict,
   evaluations |-> NoDict, generation_calls |-> 0, evaluator_calls |-> 0,
   log |-> <<>>, error |-> ""]

-----------------------------------------------------------------------------
(* The state machine.                                                       *)

\* no LLMInterface, no DistillationPipeline, no distill call yet
PipelineIdle ==
  /\ llm = [constructed |-> FALSE, pipeline |-> "None"]
  /\ pipeline = [constructed |-> FALSE, max_iterations |-> 0]
  /\ calls = [p \in Procs |-> IdleCall]

\* the state outside the distillation pipeline, untouched
OthersIdle ==
  /\ probe = IdleProbe
  /\ conv = IdleConv
  /\ registry = IdleRegistry
  /\ experiment = IdleExperiment

Init ==
  /\ PipelineIdle
  /\ OthersIdle

\* LLMInterface.__init__: self.pipeline is the loaded Hugging Face pipeline, or
\* None when transformers is missing or the model fails to load
LLMInterfaceInit ==
  /\ ~llm.constructed
  /\ \E loaded \in {"None", "loaded"} :
       llm' = [constructed |-> TRUE, pipeline |-> loaded]
  /\ UNCHANGED <<pipeline, calls, otherVars>>

\* DistillationPipeline.__init__(llm, max_iterations)
DistillationPipelineInit ==
  /\ llm.constructed
  /\ ~pipeline.constructed
  /\ \E max_iterations \in MinIter..MaxIter :
       pipeline' = [constructed |-> TRUE, max_iterations |-> max_iterations]
  /\ UNCHANGED <<llm, calls, otherVars>>

\* a mutation of the entry: the working text is an attribute of the pipeline,
\* so entering one call overwrites the text of every call in progress
EnterSharedText(p, e, text) ==
  /\ pipeline.constructed
  /\ calls[p].pc = "idle"
  /\ calls' = [q \in DOMAIN calls |->
       IF q = p
         THEN [IdleCall EXCEPT !.pc = "loop", !.entry = e.entry, !.method = e.method,
                               !.template = e.template,
                               !.initial = text, !.current = text,
                               !.conversation = NewConversation(EmptyContext, e.is_telephone)]
         ELSE [calls[q] EXCEPT !.current = text]]
  /\ UNCHANGED <<llm, pipeline, otherVars>>

\* a mutation of the entry points: the loop of distill_response starts at 1
EnterResponseFromOne(p, e, text) ==
  /\ pipeline.constructed
  /\ calls[p].pc = "idle"
  /\ calls' = [calls EXCEPT ![p] =
       [IdleCall EXCEPT !.pc = "loop", !.entry = e.entry, !.method = e.method,
                        !.template = e.template,
                        !.initial = text, !.current = text,
                        !.next = IF e.entry = "distill_response" THEN 1 ELSE 0,
                        !.conversation = NewConversation(EmptyContext, e.is_telephone)]]
  /\ UNCHANGED <<llm, pipeline, otherVars>>

\* the statements of a distill entry point before its loop
Enter(p, e, text) ==
  /\ pipeline.constructed
  /\ calls[p].pc = "idle"
  /\ calls' = [calls EXCEPT ![p] =
       [IdleCall EXCEPT !.pc = "loop", !.entry = e.entry, !.method = e.method,
                        !.template = e.template,
                        !.initial = text, !.current = text,
                        !.conversation = NewConversation(EmptyContext, e.is_telephone)]]
  /\ UNCHANGED <<llm, pipeline, otherVars>>

\* DistillationPipeline.distill_with_history(initial_prompt)
distill_with_history(p) ==
  \E text \in Texts, e \in {x \in Entries : x.entry = "distill_with_history"} :
    Enter(p, e, text)

\* DistillationPipeline.distill_by_telephone(initial_prompt)
distill_by_telephone(p) ==
  \E text \in Texts, e \in {x \in Entries : x.entry = "distill_by_telephone"} :
    Enter(p, e, text)

\* DistillationPipeline.distill_response(initial_response, method)
distill_response(p) ==
  \E text \in Texts, e \in {x \in Entries : x.entry = "distill_response"} :
    Enter(p, e, text)

\* one pass through the body of the distillation loop, the backend behaving
\* in one of the given ways
IterateWith(p, backends) ==
  LET c == calls[p]
      iteration == c.next
      request == distillation_request(c.template, c.current)
  IN  /\ c.pc = "loop"
      /\ RangeHasNext(c.next, pipeline.max_iterations)
      /\ \E backend \in backends :
           LET g == generate_response(llm.pipeline, request, backend)
               seen == [prompt |-> request,
                        backend |-> BackendSeen(llm.pipeline, backend),
                        status |-> g.status, text |-> g.text]
           IN  IF g.status = "raise"
                 THEN calls' = [calls EXCEPT
                        ![p].pc = "raised", ![p].error = g.error,
                        ![p].iteration = iteration, ![p].iteration_bound = TRUE,
                        ![p].generations = Append(@, seen)]
                 ELSE LET stop == ConvergenceCheck(c.current, g.text)
                      IN  calls' = [calls EXCEPT
                            ![p].iteration = iteration,
                            ![p].iteration_bound = TRUE,
                            ![p].generations = Append(@, seen),
                            ![p].conversation = add_exchange(@, request, g.text),
                            ![p].distillation_history =
                               Append(@, HistoryEntry(iteration, c.current, g.text, request)),
                            ![p].pc = IF stop THEN "break" ELSE "loop",
                            ![p].exit = IF stop THEN "break" ELSE "",
                            ![p].current = IF stop THEN @ ELSE g.text,
                            ![p].next = IF stop THEN @ ELSE iteration + 1]
      /\ UNCHANGED <<llm, pipeline, otherVars>>

\* one pass through the loop body, the backend free to behave in any way
Iterate(p) == IterateWith(p, BackendOutcomes)

\* the return statement, reached by break or when range() is exhausted; it
\* reads the loop variable, which is unbound when the loop body never ran
Return(p) ==
  LET c == calls[p]
  IN  /\ \/ c.pc = "break"
         \/ c.pc = "loop" /\ ~RangeHasNext(c.next, pipeline.max_iterations)
      /\ IF ~c.iteration_bound
           THEN calls' = [calls EXCEPT ![p].pc = "raised",
                                       ![p].error = "UnboundLocalError",
                                       ![p].exit = "exhausted"]
           ELSE calls' = [calls EXCEPT
                  ![p].pc = "returned",
                  ![p].exit = IF c.pc = "break" THEN "break" ELSE "exhausted",
                  ![p].result =
                     [method |-> c.method,
                      initial_text |-> c.initial,
                      final_text |-> c.current,
                      iterations |-> Len(c.distillation_history),
                      converged |-> ConvergedFlag(c.iteration, pipeline.max_iterations),
                      history |-> c.distillation_history,
                      conversation |-> c.conversation]]
      /\ UNCHANGED <<llm, pipeline, otherVars>>

Next ==
  \/ LLMInterfaceInit
  \/ DistillationPipelineInit
  \/ \E p \in Procs : distill_with_history(p)
  \/ \E p \in Procs : distill_by_telephone(p)
  \/ \E p \in Procs : distill_response(p)
  \/ \E p \in Procs : Iterate(p)
  \/ \E p \in Procs : Return(p)

Spec == Init /\ [][Next]_vars

-----------------------------------------------------------------------------
(* Properties of the distillation loop.                                     *)

\* the call slots whose pipeline was constructed with max_iterations >= 1
BoundedCall(p) == pipeline.constructed /\ pipeline.max_iterations >= 1

\* no history entry of call p passes the convergence test
NeverConverged(p) ==
  \A k \in 1..Len(calls[p].distillation_history) :
     ~_has_converged(calls[p].distillation_history[k].input,
                     calls[p].distillation_history[k].output, ThresholdNum, ThresholdDen)

\* the instruction template the entry point of call p uses
TemplateOf(p) ==
  IF calls[p].entry = "distill_response" THEN response_distillation_prompt
  ELSE DISTILLATION_PROMPT

\* C1: with max_iterations >= 1 a distill call never makes more than
\* max_iterations generation calls, returns iterations <= max_iterations, and
\* returns iterations = max_iterations when no iteration converged.
C1_IterationBound ==
  \A p \in Procs :
    BoundedCall(p) =>
      /\ Len(calls[p].generations) <= pipeline.max_iterations
      /\ calls[p].pc = "returned" =>
           /\ calls[p].result.iterations <= pipeline.max_iterations
           /\ NeverConverged(p) => calls[p].result.iterations = pipeline.max_iterations

\* C1 witness: a call that never converged returned after two or more iterations
C1_Witness ==
  \E p \in Procs :
    /\ calls[p].pc = "returned"
    /\ pipeline.max_iterations >= 2
    /\ NeverConverged(p)
    /\ calls[p].result.iterations = pipeline.max_iterations
    /\ Len(calls[p].generations) = pipeline.max_iterations

\* C2 (as claimed): the final text of every result is the output of the last
\* history entry.
C2_FinalIsLastOutput ==
  \A p \in Procs :
    calls[p].pc = "returned" =>
      /\ Len(calls[p].result.history) >= 1
      /\ calls[p].result.final_text =
           calls[p].result.history[Len(calls[p].result.history)].output

\* C3 (as claimed): converged is true exactly when the convergence check
\* stopped the loop, false exactly when the iteration bound ran out.
C3_ConvergedIffBreak ==
  \A p \in Procs :
    calls[p].pc = "returned" =>
      (calls[p].result.converged <=> calls[p].exit = "break")

\* C4 (as claimed): with max_iterations = 1 a call makes one generation call,
\* returns iterations = 1, and converged tells whether the single output
\* converged against the input.
C4_SingleIteration ==
  \A p \in Procs :
    (pipeline.constructed /\ pipeline.max_iterations = 1 /\ calls[p].pc = "returned") =>
      /\ Len(calls[p].generations) = 1
      /\ calls[p].result.iterations = 1
      /\ calls[p].result.converged <=>
           _has_converged(calls[p].initial, calls[p].result.history[1].output,
                          ThresholdNum, ThresholdDen)

\* C5: an iteration that passes the convergence test is the last one: it is the
\* last history entry, the loop has left its body for good, and no generation
\* call follows it.
C5_StopsAtFirstConvergence ==
  \A p \in Procs :
    \A k \in 1..Len(calls[p].distillation_history) :
      _has_converged(calls[p].distillation_history[k].input,
                     calls[p].distillation_history[k].output, ThresholdNum, ThresholdDen)
        => /\ k = Len(calls[p].distillation_history)
           /\ calls[p].pc \in {"break", "returned"}
           /\ Len(calls[p].generations) = k

\* C5 witness: a call stopped by convergence before its bound, on an output
\* that differs from its input, with no generation call after that iteration
C5_Witness ==
  \E p \in Procs :
    /\ calls[p].pc = "returned"
    /\ calls[p].exit = "break"
    /\ Len(calls[p].result.history) < pipeline.max_iterations
    /\ Len(calls[p].generations) = Len(calls[p].result.history)
    /\ LET last == calls[p].result.history[Len(calls[p].result.history)]
       IN  /\ last.input # last.output
           /\ _has_converged(last.input, last.output, ThresholdNum, ThresholdDen)

\* C6: iterations is the length of the history, and the history entries are
\* numbered 1, 2, ... in order.
C6_HistoryNumbering ==
  \A p \in Procs :
    /\ \A k \in 1..Len(calls[p].distillation_history) :
         calls[p].distillation_history[k].iteration = k
    /\ calls[p].pc = "returned" =>
         /\ calls[p].result.iterations = Len(calls[p].result.history)
         /\ \A k \in 1..Len(calls[p].result.history) :
              calls[p].result.history[k].iteration = k

\* C6 witness: a result with two or more history entries
C6_Witness ==
  \E p \in Procs :
    /\ calls[p].pc = "returned"
    /\ calls[p].result.iterations >= 2
    /\ calls[p].result.history[2].iteration = 2

\* C7: the history is a chain starting at the initial text, and each request
\* is the template, a blank line, then the entry's input.
C7_HistoryChain ==
  \A p \in Procs :
    LET h == calls[p].distillation_history
    IN  /\ Len(h) >= 1 => h[1].input = calls[p].initial
        /\ \A k \in 2..Len(h) : h[k].input = h[k - 1].output
        /\ \A k \in 1..Len(h) :
             h[k].request = TemplateOf(p) \o <<"\n", "\n">> \o h[k].input
        /\ calls[p].pc = "returned" => calls[p].result.history = h

\* C7 witness: a returned response distillation whose second entry continues
\* from a first output that differs from the initial text
C7_Witness ==
  \E p \in Procs :
    /\ calls[p].pc = "returned"
    /\ calls[p].entry = "distill_response"
    /\ Len(calls[p].result.history) >= 2
    /\ calls[p].result.history[1].output # calls[p].initial
    /\ calls[p].result.history[2].input = calls[p].result.history[1].output

\* C8: with max_iterations >= 1 a call that has left its loop has made at
\* least one generation call and recorded at least one iteration, and it
\* returns a result with iterations >= 1, whatever the initial text.
C8_AtLeastOneIteration ==
  \A p \in Procs :
    BoundedCall(p) =>
      /\ calls[p].pc \in {"break", "returned", "raised"} =>
           /\ Len(calls[p].generations) >= 1
           /\ Len(calls[p].distillation_history) >= 1
      /\ calls[p].pc = "returned" => calls[p].result.iterations >= 1

\* C8 witness: a call on the empty text returned with at least one iteration
C8_Witness ==
  \E p \in Procs :
    /\ calls[p].pc = "returned"
    /\ calls[p].initial = <<>>
    /\ calls[p].result.iterations >= 1
    /\ Len(calls[p].generations) >= 1

\* C9: a backend failure never escapes generate_response: the call yields the
\* mock response to its prompt, that text is the iteration's output, an
\* unconverged iteration hands it to the next one, and no call of a pipeline
\* with max_iterations >= 1 ends by raising.
C9_FailureAbsorbed ==
  \A p \in Procs :
    /\ BoundedCall(p) => calls[p].pc # "raised"
    /\ \A k \in 1..Len(calls[p].generations) :
         calls[p].generations[k].backend \in {"raises", "no_outputs"} =>
           /\ calls[p].generations[k].status = "return"
           /\ calls[p].generations[k].text = _mock_response(calls[p].generations[k].prompt)
           /\ Len(calls[p].distillation_history) >= k
           /\ calls[p].distillation_history[k].output = calls[p].generations[k].text
           /\ k < Len(calls[p].distillation_history) =>
                calls[p].distillation_history[k + 1].input = calls[p].generations[k].text

\* C9 witness: a call whose first generation raised in the backend went on to
\* a second iteration and returned
C9_Witness ==
  \E p \in Procs :
    /\ calls[p].pc = "returned"
    /\ Len(calls[p].generations) >= 2
    /\ calls[p].generations[1].backend = "raises"
    /\ calls[p].result.iterations >= 2

\* C10 (as claimed): no pipeline is constructed with max_iterations <= 0.
C10_BoundRejected ==
  pipeline.constructed => pipeline.max_iterations >= 1


-----------------------------------------------------------------------------
(* LLMInterface without a backend: generate_response on bounded prompts.    *)

\* the texts that carry a keyword of _mock_response, and the empty text
MockBodies ==
  {<<>>, INTROSPECTION_QUESTION, DISTILLATION_PROMPT, response_distillation_prompt,
   MockKeys.condense, MockKeys.clearer, MockKeys.embodied, MockKeys.person, MockKeys.assistant, MockKeys.artificial}

\* the prompts: a keyword text between two short texts
MockPrompts == {pre \o body \o suf : pre \in Texts, body \in MockBodies, suf \in Texts}

InitMock ==
  /\ llm = [constructed |-> TRUE, pipeline |-> "None"]
  /\ pipeline = [constructed |-> FALSE, max_iterations |-> 0]
  /\ calls = [p \in Procs |-> IdleCall]
  /\ probe \in {[IdleProbe EXCEPT !.pc = "ready", !.fn = "generate_response", !.prompt = p] :
                  p \in MockPrompts}
  /\ conv = IdleConv
  /\ registry = IdleRegistry
  /\ experiment = IdleExperiment

\* llm.generate_response(prompt) on an LLMInterface whose pipeline is None
MockCall ==
  /\ probe.pc = "ready"
  /\ probe.fn = "generate_response"
  /\ probe' = [probe EXCEPT
       !.pc = "done",
       !.result = generate_response(llm.pipeline, probe.prompt,
                                    [kind |-> "no_outputs", text |-> <<>>])]
  /\ UNCHANGED <<llm, pipeline, calls, conv, registry, experiment>>

NextMock == MockCall

SpecMock == InitMock /\ [][NextMock]_vars

\* C12: without a backend generate_response returns, for every prompt, a
\* non-empty text, and never raises.
C12_MockTotal ==
  (probe.pc = "done" /\ probe.fn = "generate_response") =>
    /\ probe.result.status = "return"
    /\ Len(probe.result.text) > 0

\* C12 witness: a condense prompt whose second-to-last sentence is blank was
\* answered with a non-empty text
C12_Witness ==
  /\ probe.pc = "done"
  /\ probe.fn = "generate_response"
  /\ Contains(Lower(probe.prompt), MockKeys.condense)
  /\ SplitCount(probe.prompt) > 1
  /\ Strip(SecondToLastSentence(probe.prompt)) = <<>>
  /\ Len(probe.result.text) > 0

-----------------------------------------------------------------------------
(* _has_converged on bounded texts and thresholds.                          *)

\* longest text _has_converged is evaluated on
MaxProbeLen == 2

\* the thresholds, as numerators over ThresholdDen: -0.5, 0, 0.5, 0.9, the
\* default 0.95, 1.0 and 1.5
ThresholdNums == {0 - 50, 0, 50, 90, ThresholdNum, 100, 150}

\* the texts of test_convergence_check, and two longer texts, 19 and 20
\* characters, that agree at 17 positions
ProbeTexts ==
  [hello_world |->
     <<"H", "e", "l", "l", "o", " ", "w", "o", "r", "l", "d">>,
   goodbye_moon |->
     <<"G", "o", "o", "d", "b", "y", "e", " ", "m", "o", "o", "n">>,
   quick_fox |->
     <<"t", "h", "e", " ", "q", "u", "i", "c", "k", " ", "b", "r", "o", "w", "n", " ", "f", "o",
       "x">>,
   quick_dogs |->
     <<"t", "h", "e", " ", "q", "u", "i", "c", "k", " ", "b", "r", "o", "w", "n", " ", "d", "o",
       "g", "s">>]

\* the pairs (previous, current) _has_converged is called with: every pair of
\* short texts, and the longer texts in both orders and against themselves
ProbePairs ==
  (TextsUpTo(MaxProbeLen) \X TextsUpTo(MaxProbeLen))
    \cup ({ProbeTexts.hello_world, ProbeTexts.goodbye_moon} \X {ProbeTexts.hello_world, ProbeTexts.goodbye_moon})
    \cup ({ProbeTexts.quick_fox, ProbeTexts.quick_dogs} \X {ProbeTexts.quick_fox, ProbeTexts.quick_dogs})

InitConverged ==
  /\ PipelineIdle
  /\ probe \in {[IdleProbe EXCEPT !.pc = "ready", !.fn = "_has_converged",
                                  !.previous = pair[1], !.current = pair[2],
                                  !.num = n] :
                  pair \in ProbePairs, n \in ThresholdNums}
  /\ conv = IdleConv
  /\ registry = IdleRegistry
  /\ experiment = IdleExperiment

\* pipeline._has_converged(previous, current, threshold)
ConvergedCall ==
  /\ probe.pc = "ready"
  /\ probe.fn = "_has_converged"
  /\ probe' = [probe EXCEPT
       !.pc = "done",
       !.verdict = _has_converged_call(probe.previous, probe.current, probe.num,
                                       ThresholdDen)]
  /\ UNCHANGED <<llm, pipeline, calls, conv, registry, experiment>>

NextConverged == ConvergedCall

SpecConverged == InitConverged /\ [][NextConverged]_vars

\* C19: a non-empty text has converged against itself at threshold 0.95.
C19_IdenticalConverges ==
  (/\ probe.pc = "done"
   /\ probe.fn = "_has_converged"
   /\ probe.previous = probe.current
   /\ Len(probe.current) > 0
   /\ probe.num = 95) =>
    /\ probe.verdict.status = "return"
    /\ probe.verdict.value = TRUE

\* C19 witness: a two-character text with an upper-case letter was compared
\* with itself at threshold 0.95
C19_Witness ==
  /\ probe.pc = "done"
  /\ probe.fn = "_has_converged"
  /\ probe.previous = probe.current
  /\ Len(probe.current) = 2
  /\ \E i \in 1..2 : probe.current[i] = "A"
  /\ probe.num = 95
  /\ probe.verdict.value = TRUE

\* C20: with an empty current the check returns false for every previous and
\* every threshold, and no call ends in a division by zero.
C20_EmptyCurrentNeverConverges ==
  (probe.pc = "done" /\ probe.fn = "_has_converged") =>
    /\ probe.verdict.status = "return"
    /\ Len(probe.current) = 0 => probe.verdict.value = FALSE

\* C20 witness: both texts empty and a threshold of 0 or less, where a
\* score of 0 would reach the threshold
C20_Witness ==
  /\ probe.pc = "done"
  /\ probe.fn = "_has_converged"
  /\ Len(probe.previous) = 0
  /\ Len(probe.current) = 0
  /\ probe.num <= 0
  /\ probe.verdict.status = "return"
  /\ probe.verdict.value = FALSE


-----------------------------------------------------------------------------
(* A Conversation under a caller's add_exchange, formulate_prompt and str.  *)

\* most exchanges added to the Conversation under test
MaxExchanges == 2

\* the texts the caller passes to add_exchange
ExchangeTexts == {<<>>, <<"a">>, <<"b">>}

\* the contexts a Conversation is built on: Context() and Context(text)
ConvContexts ==
  {EmptyContext} \cup {Context(t, FALSE, FALSE, FALSE, "", "") : t \in Texts}

InitConversation ==
  /\ PipelineIdle
  /\ probe = IdleProbe
  /\ conv \in {[obj |-> NewConversation(c, t), out |-> NoOutcome] :
                 c \in ConvContexts, t \in BOOLEAN}
  /\ registry = IdleRegistry
  /\ experiment = IdleExperiment

\* conversation.add_exchange(user_input, bot_response)
AddExchange ==
  /\ Len(conv.obj.exchanges) < MaxExchanges
  /\ \E user_input \in ExchangeTexts, bot_response \in ExchangeTexts :
       conv' = [obj |-> add_exchange(conv.obj, user_input, bot_response),
                out |-> NoOutcome]
  /\ UNCHANGED <<llm, pipeline, calls, probe, registry, experiment>>

\* conversation.formulate_prompt()
FormulatePrompt ==
  /\ conv' = [conv EXCEPT !.out = [op |-> "formulate_prompt", status |-> "return",
                                   text |-> formulate_prompt(conv.obj), error |-> ""]]
  /\ UNCHANGED <<llm, pipeline, calls, probe, registry, experiment>>

\* str(conversation)
Render ==
  /\ LET o == Conversation__str__(conv.obj)
     IN  conv' = [conv EXCEPT !.out = [op |-> "__str__", status |-> o.status,
                                       text |-> o.text, error |-> o.error]]
  /\ UNCHANGED <<llm, pipeline, calls, probe, registry, experiment>>

NextConversation == AddExchange \/ FormulatePrompt \/ Render

SpecConversation == InitConversation /\ [][NextConversation]_vars

\* the texts of the exchanges added so far
ExchangeTextsOf(obj) ==
  {obj.exchanges[k][i] : k \in 1..Len(obj.exchanges), i \in 1..2}

\* C13: in telephone mode formulate_prompt returns what it returns on an empty
\* exchange log, the context text and a newline, whatever was added; an
\* exchange text occurs in it only where the context text and newline hold it.
C13_TelephonePromptIgnoresExchanges ==
  (conv.out.op = "formulate_prompt" /\ conv.obj.is_telephone) =>
    /\ conv.out.text = ContextStr(conv.obj.context) \o <<"\n">>
    /\ conv.out.text = formulate_prompt(NewConversation(conv.obj.context, TRUE))
    /\ \A t \in ExchangeTextsOf(conv.obj) :
         Contains(conv.out.text, t) =>
           Contains(ContextStr(conv.obj.context) \o <<"\n">>, t)

\* C13 witness: a telephone prompt formulated after two exchanges of texts
\* that the context does not hold
C13_Witness ==
  /\ conv.out.op = "formulate_prompt"
  /\ conv.obj.is_telephone
  /\ Len(conv.obj.exchanges) = 2
  /\ conv.obj.exchanges[1] = <<<<"a">>, <<"b">>>>
  /\ ~Contains(ContextStr(conv.obj.context), <<"a">>)
  /\ ~Contains(conv.out.text, <<"a">>)
  /\ ~Contains(conv.out.text, <<"b">>)

\* length of the text formulate_prompt writes for one exchange
SegmentLen(exchange) ==
  Len(Labels.user) + Len(exchange[1]) + Len(Labels.bot) + Len(exchange[2])

\* where in a full-history prompt the text of exchange k starts, less one
RECURSIVE SegmentOffset(_, _)
SegmentOffset(obj, k) ==
  IF k = 1 THEN Len(ContextStr(obj.context)) + 1
  ELSE SegmentOffset(obj, k - 1) + SegmentLen(obj.exchanges[k - 1])

\* C14: in full-history mode the prompt is the context text, a newline, then
\* one segment per exchange in insertion order, the user's text before the
\* bot's, and nothing else.
C14_FullHistoryPrompt ==
  (conv.out.op = "formulate_prompt" /\ ~conv.obj.is_telephone) =>
    LET ctx == ContextStr(conv.obj.context)
        ex == conv.obj.exchanges
        n == Len(ex)
    IN  /\ SubSeq(conv.out.text, 1, Len(ctx)) = ctx
        /\ conv.out.text[Len(ctx) + 1] = "\n"
        /\ \A k \in 1..n :
             SubSeq(conv.out.text, SegmentOffset(conv.obj, k) + 1,
                    SegmentOffset(conv.obj, k) + SegmentLen(ex[k]))
               = Labels.user \o ex[k][1] \o Labels.bot \o ex[k][2]
        /\ Len(conv.out.text) = SegmentOffset(conv.obj, n + 1)

\* C14 witness: a full-history prompt over two different exchanges
C14_Witness ==
  /\ conv.out.op = "formulate_prompt"
  /\ ~conv.obj.is_telephone
  /\ Len(conv.obj.exchanges) = 2
  /\ conv.obj.exchanges[1] = <<<<"a">>, <<"b">>>>
  /\ conv.obj.exchanges[2] = <<<<"b">>, <<>>>>
  /\ Len(ContextStr(conv.obj.context)) > 0

\* C15 (as claimed): rendering a telephone Conversation returns the output of
\* the most recent exchange, and with no exchange it raises an empty-state
\* error, not an IndexError.
C15_TelephoneRender ==
  (conv.out.op = "__str__" /\ conv.obj.is_telephone) =>
    IF Len(conv.obj.exchanges) > 0
      THEN /\ conv.out.status = "return"
           /\ conv.out.text = conv.obj.exchanges[Len(conv.obj.exchanges)][2]
      ELSE /\ conv.out.status = "raise"
           /\ conv.out.error # "IndexError"

-----------------------------------------------------------------------------
(* The registry under lookups and a caller that edits the mapping it got.   *)

\* most edits a caller makes to the mapping get_all_contexts returned
MaxViewOps == 2

\* the names a caller uses
CallerNames == {ContextNames[i] : i \in 1..Len(ContextNames)} \cup {"nonexistent", ""}

InitRegistry ==
  /\ PipelineIdle
  /\ probe = IdleProbe
  /\ conv = IdleConv
  /\ registry = IdleRegistry
  /\ experiment = IdleExperiment

\* the caller's edit reaches the dict its reference leads to
EditView(reg, d) ==
  IF reg.view_ref = "CONTEXTS"
    THEN [reg EXCEPT !.CONTEXTS = d, !.ops = @ + 1]
    ELSE [reg EXCEPT !.copy = d, !.ops = @ + 1]

\* contexts = get_all_contexts()
GetAllContexts ==
  /\ registry' = get_all_contexts(registry)
  /\ UNCHANGED <<llm, pipeline, calls, probe, conv, experiment>>

\* contexts[name] = Context(), by the caller
ViewSetItem ==
  /\ registry.view_ref # "none"
  /\ registry.ops < MaxViewOps
  /\ \E name \in CallerNames :
       registry' = EditView(registry, DictSet(ViewOf(registry), name, EmptyContext))
  /\ UNCHANGED <<llm, pipeline, calls, probe, conv, experiment>>

\* del contexts[name], by the caller
ViewDelItem ==
  /\ registry.view_ref # "none"
  /\ registry.ops < MaxViewOps
  /\ \E name \in KeySet(ViewOf(registry)) :
       registry' = EditView(registry, DictDel(ViewOf(registry), name))
  /\ UNCHANGED <<llm, pipeline, calls, probe, conv, experiment>>

\* get_context_by_name(name)
GetContextByName ==
  /\ \E name \in CallerNames :
       registry' = [registry EXCEPT !.lookup = get_context_by_name(registry, name)]
  /\ UNCHANGED <<llm, pipeline, calls, probe, conv, experiment>>

NextRegistry == GetAllContexts \/ ViewSetItem \/ ViewDelItem \/ GetContextByName

SpecRegistry == InitRegistry /\ [][NextRegistry]_vars

\* the seven names of the experiment's contexts
SevenNames ==
  {"isolation", "embodied_positive", "embodied_neutral", "embodied_negative",
   "ai_assistant_positive", "ai_assistant_neutral", "ai_assistant_negative"}

\* C16: whatever the caller did to a mapping it got, get_all_contexts returns
\* a mapping with exactly the seven names, and the registry is as it was.
C16_GetAllSevenEntries ==
  LET got == ViewOf(get_all_contexts(registry))
  IN  /\ KeySet(got) = SevenNames
      /\ Len(got.keys) = 7
      /\ Cardinality(SevenNames) = 7
      /\ KeySet(registry.CONTEXTS) = SevenNames
      /\ Len(registry.CONTEXTS.keys) = 7

\* C16 witness: the caller has added a key to and removed a key from the
\* mapping it got
C16_Witness ==
  /\ registry.view_ref # "none"
  /\ registry.ops = 2
  /\ "nonexistent" \in KeySet(ViewOf(registry))
  /\ "isolation" \notin KeySet(ViewOf(registry))

\* C17: a lookup by a key of get_all_contexts() returns the Context of that name.
C17_LookupRoundTrip ==
  (/\ registry.lookup.status # "none"
   /\ registry.lookup.name \in KeySet(ViewOf(get_all_contexts(registry)))) =>
    /\ registry.lookup.status = "return"
    /\ registry.lookup.context.name = registry.lookup.name

\* C17 witness: embodied_neutral was looked up and returned
C17_Witness ==
  /\ registry.lookup.status = "return"
  /\ registry.lookup.name = "embodied_neutral"
  /\ registry.lookup.context.name = "embodied_neutral"

\* C18: a lookup by a name that is no key raises KeyError with the seven valid
\* names listed, returns no Context, and leaves the registry as it was.
C18_LookupNotFound ==
  (/\ registry.lookup.status # "none"
   /\ registry.lookup.name \notin SevenNames) =>
    /\ registry.lookup.status = "raise"
    /\ registry.lookup.error = "KeyError"
    /\ {registry.lookup.available[i] : i \in 1..Len(registry.lookup.available)} = SevenNames
    /\ Len(registry.lookup.available) = 7
    /\ registry.CONTEXTS = CONTEXTS

\* C18 witness: the name "nonexistent" was looked up while the caller's own
\* mapping holds that key
C18_Witness ==
  /\ registry.lookup.status = "raise"
  /\ registry.lookup.name = "nonexistent"
  /\ registry.view_ref # "none"
  /\ "nonexistent" \in KeySet(ViewOf(registry))

-----------------------------------------------------------------------------
(* experiment.py: IntrospectionExperiment. run_full_experiment is followed  *)
(* from one call of a text generator or of the distillation pipeline to the *)
(* next; the distillation calls run in call slot 1.                         *)

\* the ways the loaded Hugging Face pipeline behaves during one run: it raises,
\* returns no outputs, or returns the same text at every call
ExperimentBackends ==
  {[kind |-> "raises", text |-> <<>>], [kind |-> "no_outputs", text |-> <<>>],
   [kind |-> "outputs", text |-> <<>>], [kind |-> "outputs", text |-> <<"a">>]}

\* self.llm: without a pipeline, or with one behaving in one of these ways
LLMConfigs ==
  {[pipeline |-> "None", backend |-> NoBackend]}
    \cup {[pipeline |-> "loaded", backend |-> b] : b \in ExperimentBackends}

\* a reply of the evaluator's model that carries the three lines asked for
EvaluatorReply ==
  <<"S", "i", "m", "i", "l", "a", "r", "i", "t", "y", " ", "s", "c", "o", "r", "e", ":", " ",
    "1", "2", "\n", "K", "e", "y", " ", "d", "i", "f", "f", "e", "r", "e", "n", "c", "e", "s",
    ":", " ", "a", "\n", "C", "o", "m", "m", "o", "n", " ", "t", "h", "e", "m", "e", "s", ":",
    " ", "a">>

\* self.evaluator_llm.llm: without a pipeline, or with one that gives EvaluatorReply
EvaluatorConfigs ==
  {[pipeline |-> "None", backend |-> NoBackend],
   [pipeline |-> "loaded", backend |-> [kind |-> "outputs", text |-> EvaluatorReply]]}

\* a mutation of the phase order: final prompting before prompt distillation
PhasesSwapped ==
  <<"initial_prompting", "final_prompting", "prompt_distillation",
    "response_distillation", "evaluation">>

\* the phases of run_full_experiment, in the order of its statements
Phases ==
  <<"initial_prompting", "prompt_distillation", "final_prompting",
    "response_distillation", "evaluation">>

\* the two phases that call the distillation pipeline
DistillPhases == {"prompt_distillation", "response_distillation"}

\* _run_initial_prompting: the prompt built for one context
initial_prompt(context) ==
  LET full_prompt == formulate_prompt(NewConversation(context, FALSE))
  IN  IF Strip(full_prompt) # <<>>
        \* f"\\n\\n{INTROSPECTION_QUESTION}": a backslash and an n, twice, then the question
        THEN full_prompt \o <<"\\", "n", "\\", "n">> \o INTROSPECTION_QUESTION
      ELSE INTROSPECTION_QUESTION

\* _run_initial_prompting: the entry stored for one context
initial_entry(context_name, context, full_prompt, response) ==
  [context |-> context_name, context_str |-> ContextStr(context),
   prompt |-> full_prompt, response |-> response,
   context_metadata |->
     [is_embodied |-> context.is_embodied, is_AI_assistant |-> context.is_AI_assistant,
      valence |-> context.valence, is_null |-> context.is_null]]

\* EvaluatorLLM.compare_responses, on the evaluator's own LLMInterface
compare_responses(evaluator, response1, response2, context1, context2) ==
  ParseEvaluation(
    generate_response(evaluator.pipeline,
                      evaluation_prompt(response1, response2, context1, context2),
                      evaluator.backend).text)

\* f"{context1}_vs_{context2}"
comparison_key(context1, context2) == context1 \o "_vs_" \o context2

\* the end of a `for ... in d.items()` pass: the next key of the same phase, or
\* the first key of the phase that follows
AfterContext(e, keys, next_pc) ==
  IF e.idx < Len(keys)
    THEN [e EXCEPT !.idx = e.idx + 1]
    ELSE [e EXCEPT !.pc = next_pc, !.idx = 1, !.other = 2, !.step = "with_history"]

\* the entry point a distillation step calls, with the method it passes
EntryOf(pc, step) ==
  CHOOSE x \in Entries :
    /\ x.method = (IF step = "with_history" THEN "with_history" ELSE "telephone")
    /\ x.entry = (IF pc = "response_distillation" THEN "distill_response"
                  ELSE IF step = "with_history" THEN "distill_with_history"
                  ELSE "distill_by_telephone")

\* the text a distillation step hands to the pipeline
DistillInput(e) ==
  IF e.pc = "prompt_distillation"
    THEN e.initial_responses.vals[e.initial_responses.keys[e.idx]].response
    ELSE e.final_responses.vals[e.final_responses.keys[e.idx]][e.step].final_response

\* calls of a text generator made so far in the run, the evaluator's included
GenerationCalls ==
  experiment.generation_calls + experiment.evaluator_calls + Len(calls[1].generations)

\* IntrospectionExperiment.__init__: both LLM interfaces, the pipeline with the
\* given bound, the comparison utility on self.llm
ExperimentInit ==
  /\ experiment.pc = "idle"
  /\ ~llm.constructed
  /\ \E max_distillation_iterations \in MinIter..MaxIter,
        g \in LLMConfigs, ev \in EvaluatorConfigs :
       /\ llm' = [constructed |-> TRUE, pipeline |-> g.pipeline]
       /\ pipeline' = [constructed |-> TRUE,
                       max_iterations |-> max_distillation_iterations]
       /\ experiment' =
            [IdleExperiment EXCEPT
               !.pc = "constructed",
               !.max_distillation_iterations = max_distillation_iterations,
               !.backend = g.backend, !.evaluator = ev]
  /\ UNCHANGED <<calls, probe, conv, registry>>

\* run_full_experiment, up to the first phase: contexts = get_all_contexts()
RunFullExperiment ==
  /\ experiment.pc = "constructed"
  /\ experiment' = [experiment EXCEPT !.pc = Phases[1], !.idx = 1,
                                      !.contexts = get_all_contexts(registry).copy]
  /\ UNCHANGED <<llm, pipeline, calls, probe, conv, registry>>

\* _run_initial_prompting: one pass of its loop
InitialPrompting ==
  LET e == experiment
      context_name == e.contexts.keys[e.idx]
      context == e.contexts.vals[context_name]
      full_prompt == initial_prompt(context)
      response == generate_response(llm.pipeline, full_prompt, e.backend).text
      stored == [e EXCEPT
                   !.initial_responses =
                      DictSet(@, context_name,
                              initial_entry(context_name, context, full_prompt, response)),
                   !.generation_calls = @ + 1,
                   !.log = Append(@, <<e.pc, context_name>>)]
  IN  /\ e.pc = "initial_prompting"
      /\ experiment' = AfterContext(stored, e.contexts.keys, Phases[2])
      /\ UNCHANGED <<llm, pipeline, calls, probe, conv, registry>>

\* a distillation phase calls the pipeline: distill_with_history or
\* distill_by_telephone on the initial response, distill_response on a final one
DistillCall ==
  /\ experiment.pc \in DistillPhases
  /\ experiment.step \in {"with_history", "by_telephone"}
  /\ Enter(1, EntryOf(experiment.pc, experiment.step), DistillInput(experiment))

\* the pipeline's loop, run for the experiment
DistillIterate ==
  /\ experiment.pc \in DistillPhases
  /\ IterateWith(1, {experiment.backend})

\* the pipeline's return statement, run for the experiment
DistillReturn ==
  /\ experiment.pc \in DistillPhases
  /\ Return(1)

\* the pipeline's call returns its dict to the phase
DistillCollect ==
  LET e == experiment
  IN  /\ e.pc \in DistillPhases
      /\ calls[1].pc = "returned"
      /\ experiment' =
           [e EXCEPT
              !.with_history = IF e.step = "with_history" THEN calls[1].result ELSE @,
              !.by_telephone = IF e.step = "by_telephone" THEN calls[1].result ELSE @,
              !.step = IF e.step = "with_history" THEN "by_telephone" ELSE "compare",
              !.generation_calls = @ + Len(calls[1].generations)]
      /\ calls' = [calls EXCEPT ![1] = IdleCall]
      /\ UNCHANGED <<llm, pipeline, probe, conv, registry>>

\* the pipeline's call raises: nothing in the phase or in run_full_experiment
\* catches it
DistillRaise ==
  /\ experiment.pc \in DistillPhases
  /\ calls[1].pc = "raised"
  /\ experiment' = [experiment EXCEPT
                      !.pc = "failed", !.error = calls[1].error,
                      !.generation_calls = @ + Len(calls[1].generations)]
  /\ calls' = [calls EXCEPT ![1] = IdleCall]
  /\ UNCHANGED <<llm, pipeline, probe, conv, registry>>

\* the end of one pass of a distillation phase: compare_distillation_methods
\* asks self.llm, and the entry of the context is stored
DistillCompare ==
  LET e == experiment
      keys == IF e.pc = "prompt_distillation" THEN e.initial_responses.keys
              ELSE e.final_responses.keys
      context_name == keys[e.idx]
      evaluation ==
        generate_response(llm.pipeline,
                          comparison_prompt(e.with_history.final_text,
                                            e.by_telephone.final_text),
                          e.backend).text
      comparison == compare_distillation_methods(e.with_history, e.by_telephone, evaluation)
      stored ==
        IF e.pc = "prompt_distillation"
          THEN [e EXCEPT !.distilled_prompts =
                  DictSet(@, context_name,
                          [original_response |-> e.initial_responses.vals[context_name].response,
                           with_history |-> e.with_history,
                           by_telephone |-> e.by_telephone,
                           comparison |-> comparison])]
          ELSE [e EXCEPT !.distilled_responses =
                  DictSet(@, context_name,
                          [with_history |-> e.with_history,
                           by_telephone |-> e.by_telephone,
                           comparison |-> comparison])]
      next_pc == IF e.pc = "prompt_distillation" THEN Phases[3] ELSE Phases[5]
  IN  /\ e.pc \in DistillPhases
      /\ e.step = "compare"
      /\ experiment' =
           AfterContext([stored EXCEPT !.step = "with_history",
                                       !.with_history = NoResult,
                                       !.by_telephone = NoResult,
                                       !.generation_calls = @ + 1,
                                       !.log = Append(@, <<e.pc, context_name>>)],
                        keys, next_pc)
      /\ UNCHANGED <<llm, pipeline, calls, probe, conv, registry>>

\* _run_final_prompting: one pass of its loop
FinalPrompting ==
  LET e == experiment
      context_name == e.distilled_prompts.keys[e.idx]
      distillation_data == e.distilled_prompts.vals[context_name]
      history_prompt == distillation_data.with_history.final_text
      telephone_prompt == distillation_data.by_telephone.final_text
      history_response == generate_response(llm.pipeline, history_prompt, e.backend).text
      telephone_response == generate_response(llm.pipeline, telephone_prompt, e.backend).text
      stored ==
        [e EXCEPT
           !.final_responses =
              DictSet(@, context_name,
                      [context |-> context_name,
                       with_history |-> [distilled_prompt |-> history_prompt,
                                         final_response |-> history_response],
                       by_telephone |-> [distilled_prompt |-> telephone_prompt,
                                         final_response |-> telephone_response]]),
           !.generation_calls = @ + 2,
           !.log = Append(@, <<e.pc, context_name>>)]
  IN  /\ e.pc = "final_prompting"
      /\ experiment' = AfterContext(stored, e.distilled_prompts.keys, Phases[4])
      /\ UNCHANGED <<llm, pipeline, calls, probe, conv, registry>>

\* a mutation of the nested loops: the inner loop starts at i, not at i + 1
AfterPairFromSelf(e, n) ==
  IF e.other < n THEN [e EXCEPT !.other = e.other + 1]
  ELSE IF e.idx + 1 < n THEN [e EXCEPT !.idx = e.idx + 1, !.other = e.idx + 1]
  ELSE [e EXCEPT !.pc = "compile"]

\* _run_evaluation: the position after the pair (i, j) of its nested loops
AfterPair(e, n) ==
  IF e.other < n THEN [e EXCEPT !.other = e.other + 1]
  ELSE IF e.idx + 1 < n THEN [e EXCEPT !.idx = e.idx + 1, !.other = e.idx + 2]
  ELSE [e EXCEPT !.pc = "compile"]

\* _run_evaluation: one pass of the inner loop
Evaluation ==
  LET e == experiment
      context_names == e.distilled_responses.keys
      context1 == context_names[e.idx]
      context2 == context_names[e.other]
      resp1 == e.distilled_responses.vals[context1]
      resp2 == e.distilled_responses.vals[context2]
      history_comparison ==
        compare_responses(e.evaluator, resp1.with_history.final_text,
                          resp2.with_history.final_text, context1, context2)
      telephone_comparison ==
        compare_responses(e.evaluator, resp1.by_telephone.final_text,
                          resp2.by_telephone.final_text, context1, context2)
      stored ==
        [e EXCEPT
           !.evaluations =
              DictSet(@, comparison_key(context1, context2),
                      [context1 |-> context1, context2 |-> context2,
                       context1_metadata |-> e.contexts.vals[context1],
                       context2_metadata |-> e.contexts.vals[context2],
                       history_method |-> history_comparison,
                       telephone_method |-> telephone_comparison]),
           !.evaluator_calls = @ + 2,
           !.log = Append(@, <<e.pc, comparison_key(context1, context2)>>)]
  IN  /\ e.pc = "evaluation"
      /\ e.other <= Len(context_names)
      /\ experiment' = AfterPair(stored, Len(context_names))
      /\ UNCHANGED <<llm, pipeline, calls, probe, conv, registry>>

\* run_full_experiment after the last phase: self.results is assembled from the
\* five dicts and returned
Compile ==
  /\ experiment.pc = "compile"
  /\ experiment' = [experiment EXCEPT !.pc = "done"]
  /\ UNCHANGED <<llm, pipeline, calls, probe, conv, registry>>

NextExperiment ==
  \/ ExperimentInit
  \/ RunFullExperiment
  \/ InitialPrompting
  \/ DistillCall
  \/ DistillIterate
  \/ DistillReturn
  \/ DistillCollect
  \/ DistillRaise
  \/ DistillCompare
  \/ FinalPrompting
  \/ Evaluation
  \/ Compile

SpecExperiment == Init /\ [][NextExperiment]_vars

\* C11 (as claimed): an experiment constructed with a non-positive iteration
\* bound has called no text generator, however far its run has got.
C11_NoGenerationBeforeFailure ==
  (experiment.pc # "idle" /\ experiment.max_distillation_iterations <= 0)
    => GenerationCalls = 0

-----------------------------------------------------------------------------
(* EvaluatorLLM.compare_responses on bounded replies of the evaluator.      *)

\* most lines in a reply of the evaluator's model
MaxReplyLines == 2

\* the lines a reply is made of: blank, a bare number, the word score with
\* no number, with 0, with 7, with 12 and a second number, the prompt's own
\* score line, a differences line, a common line and a themes line
ReplyLines ==
  {<<>>,
   <<"7">>,
   <<"s", "c", "o", "r", "e">>,
   <<"S", "c", "o", "r", "e", ":", " ", "0">>,
   <<"s", "c", "o", "r", "e", " ", "7">>,
   <<"S", "C", "O", "R", "E", " ", "1", "2", " ", "3">>,
   <<"S", "i", "m", "i", "l", "a", "r", "i", "t", "y", " ", "s", "c", "o", "r", "e", " ", "(",
    "1", "-", "1", "0", ")", ":", " ", "7">>,
   <<"d", "i", "f", "f", "e", "r", "e", "n", "c", "e", "s", " ", "3">>,
   <<"c", "o", "m", "m", "o", "n", " ", "4">>,
   <<"n", "o", " ", "t", "h", "e", "m", "e", "s">>}

\* the lines joined by newlines
RECURSIVE JoinLines(_)
JoinLines(lines) ==
  IF Len(lines) = 0 THEN <<>>
  ELSE IF Len(lines) = 1 THEN lines[1]
  ELSE lines[1] \o <<"\n">> \o JoinLines(Tail(lines))

\* the replies: one to MaxReplyLines lines
EvaluatorReplies ==
  {JoinLines(ls) : ls \in UNION {[1..n -> ReplyLines] : n \in 1..MaxReplyLines}}

\* what the evaluator's pipeline does at the call: raise, return no outputs,
\* or return one of the replies
EvaluatorOutcomes ==
  {[kind |-> "raises", text |-> <<>>], [kind |-> "no_outputs", text |-> <<>>]}
    \cup {[kind |-> "outputs", text |-> t] : t \in EvaluatorReplies}

InitEvaluator ==
  /\ llm \in {[constructed |-> TRUE, pipeline |-> l] : l \in {"None", "loaded"}}
  /\ pipeline = [constructed |-> FALSE, max_iterations |-> 0]
  /\ calls = [p \in Procs |-> IdleCall]
  /\ probe \in {[IdleProbe EXCEPT !.pc = "ready", !.fn = "compare_responses",
                                  !.previous = a, !.current = b, !.reply = o] :
                  a \in {<<>>, <<"a">>}, b \in {<<"a">>}, o \in EvaluatorOutcomes}
  /\ conv = IdleConv
  /\ registry = IdleRegistry
  /\ experiment = IdleExperiment

\* evaluator.compare_responses(response1, response2, context1, context2); the
\* try/except around the number extraction leaves nothing that can raise
CompareResponses ==
  /\ probe.pc = "ready"
  /\ probe.fn = "compare_responses"
  /\ LET parsed == compare_responses([pipeline |-> llm.pipeline, backend |-> probe.reply],
                                     probe.previous, probe.current,
                                     "isolation", "embodied_neutral")
     IN  probe' = [probe EXCEPT
           !.pc = "done",
           !.comparison = [status |-> "return",
                           similarity_score |-> parsed.similarity_score,
                           key_differences |-> parsed.key_differences,
                           common_themes |-> parsed.common_themes,
                           full_evaluation |-> parsed.full_evaluation]]
  /\ UNCHANGED <<llm, pipeline, calls, conv, registry, experiment>>

NextEvaluator == CompareResponses

SpecEvaluator == InitEvaluator /\ [][NextEvaluator]_vars

\* the lines of a text that name a score and hold a digit, by position
ScoreLinesOf(evaluation) ==
  LET lines == SplitLines(evaluation)
  IN  {i \in 1..Len(lines) :
         /\ Contains(Lower(lines[i]), EvaluationTexts.score)
         /\ \E k \in 1..Len(lines[i]) : lines[i][k] \in Digits}

\* C21: for every reply of the evaluator compare_responses returns, the score
\* is an integer from 1 to 10, and it is 5 when no line of the evaluation
\* names a score with a number in it.
C21_ScoreInRange ==
  (probe.pc = "done" /\ probe.fn = "compare_responses") =>
    /\ probe.comparison.status = "return"
    /\ probe.comparison.similarity_score \in 1..10
    /\ ScoreLinesOf(probe.comparison.full_evaluation) = {}
         => probe.comparison.similarity_score = 5

\* C21 witness: the evaluator answered with a score of 0 and a differences
\* line, and the score returned is 1
C21_Witness ==
  /\ probe.pc = "done"
  /\ probe.fn = "compare_responses"
  /\ probe.comparison.full_evaluation = JoinLines(<<<<"S", "c", "o", "r", "e", ":", " ", "0">>,
        <<"d", "i", "f", "f", "e", "r", "e", "n", "c", "e", "s", " ", "3">>>>)
  /\ probe.comparison.similarity_score = 1
  /\ probe.comparison.key_differences = <<"d", "i", "f", "f", "e", "r", "e", "n", "c", "e", "s", " ", "3">>

-----------------------------------------------------------------------------
(* Properties of run_full_experiment.                                       *)

\* the passes of the evaluation loop made so far
EvaluationPasses == SelectSeq(experiment.log, LAMBDA ev : ev[1] = "evaluation")

\* the position of a name in a sequence of distinct names
IndexIn(names, name) == CHOOSE i \in 1..Len(names) : names[i] = name

\* C22: the evaluation phase stores one entry per pass, each for two different
\* contexts in the order of the registry, no unordered pair twice; when the
\* phase is over the entries are the 21 pairs of the 7 contexts.
C22_AllPairsOnce ==
  LET names == experiment.distilled_responses.keys
      ev == experiment.evaluations
  IN  experiment.pc \in {"evaluation", "compile", "done"} =>
        /\ Len(ev.keys) = Len(EvaluationPasses)
        /\ \A a, b \in 1..Len(ev.keys) : ev.keys[a] = ev.keys[b] => a = b
        /\ \A k \in KeySet(ev) :
             /\ ev.vals[k].context1 # ev.vals[k].context2
             /\ IndexIn(names, ev.vals[k].context1) < IndexIn(names, ev.vals[k].context2)
             /\ k = comparison_key(ev.vals[k].context1, ev.vals[k].context2)
        /\ \A k1, k2 \in KeySet(ev) :
             {ev.vals[k1].context1, ev.vals[k1].context2}
               = {ev.vals[k2].context1, ev.vals[k2].context2} => k1 = k2
        /\ experiment.pc \in {"compile", "done"} =>
             /\ Len(names) = 7
             /\ Len(ev.keys) = 21
             /\ {<<ev.vals[k].context1, ev.vals[k].context2>> : k \in KeySet(ev)}
                  = {<<names[p[1]], names[p[2]]>> :
                       p \in {q \in (1..7) \X (1..7) : q[1] < q[2]}}

\* C22 witness: a finished run with 21 entries, the last for the last two
\* contexts of the registry
C22_Witness ==
  /\ experiment.pc = "done"
  /\ Len(experiment.evaluations.keys) = 21
  /\ experiment.evaluations.keys[21] = "ai_assistant_neutral_vs_ai_assistant_negative"
  /\ experiment.evaluations.keys[1] = "isolation_vs_embodied_positive"

\* the five phases in the order claimed
ClaimedOrder ==
  <<"initial_prompting", "prompt_distillation", "final_prompting",
    "response_distillation", "evaluation">>

\* the place of a phase in the order claimed; the steps after the last phase
\* count as a sixth place
PlaceOf(phase) ==
  IF \E i \in 1..5 : ClaimedOrder[i] = phase
    THEN CHOOSE i \in 1..5 : ClaimedOrder[i] = phase
    ELSE 6

\* the contexts a phase has finished, in the order it finished them
FinishedIn(phase) ==
  LET passes == SelectSeq(experiment.log, LAMBDA ev : ev[1] = phase)
  IN  [i \in 1..Len(passes) |-> passes[i][2]]

\* the result dict of each of the five phases
ResultOf(phase) ==
  CASE phase = "initial_prompting" -> experiment.initial_responses
    [] phase = "prompt_distillation" -> experiment.distilled_prompts
    [] phase = "final_prompting" -> experiment.final_responses
    [] phase = "response_distillation" -> experiment.distilled_responses
    [] phase = "evaluation" -> experiment.evaluations

\* C23: the passes of the run come phase by phase in the order initial
\* prompting, prompt distillation, final prompting, response distillation,
\* evaluation; while a phase runs, every earlier phase has a result for each
\* of the seven contexts in registry order and no later phase has any result;
\* the pipeline is called in the two distillation phases only.
C23_PhasesInOrder ==
  LET log == experiment.log
      now == PlaceOf(experiment.pc)
  IN  /\ \A a, b \in 1..Len(log) : a < b => PlaceOf(log[a][1]) <= PlaceOf(log[b][1])
      /\ experiment.pc \notin {"idle", "constructed", "failed"} =>
           /\ \A k \in 1..5 :
                /\ (k < now /\ k < 5) =>
                     /\ FinishedIn(ClaimedOrder[k]) = ContextNames
                     /\ ResultOf(ClaimedOrder[k]).keys = ContextNames
                /\ k > now => ResultOf(ClaimedOrder[k]) = NoDict
                /\ ResultOf(ClaimedOrder[k]).keys = FinishedIn(ClaimedOrder[k])
           /\ now = 6 => Len(FinishedIn("evaluation")) = 21
      /\ calls[1].pc # "idle" =>
           experiment.pc \in {"prompt_distillation", "response_distillation"}

\* C23 witness: a run that went through all five phases, 7 passes in each of
\* the first four and 21 in the last
C23_Witness ==
  /\ experiment.pc = "done"
  /\ Len(experiment.log) = 49
  /\ experiment.log[1] = <<"initial_prompting", "isolation">>
  /\ experiment.log[8] = <<"prompt_distillation", "isolation">>
  /\ experiment.log[15] = <<"final_prompting", "isolation">>
  /\ experiment.log[22] = <<"response_distillation", "isolation">>
  /\ experiment.log[29][1] = "evaluation"

-----------------------------------------------------------------------------
(* Two distill calls on one pipeline, interleaved at their generation calls, *)
(* with a generator whose reply is a function of the prompt.                 *)

\* the two calls
TwoProcs == {1, 2}

\* the texts the two calls start from
PairTexts == {<<>>, <<"a">>, <<"a", "A">>}

\* the stateless deterministic generators: the pipeline raises, returns no
\* outputs, returns one fixed text, or ("echo") returns the last three
\* characters of the prompt without the very last
Generators ==
  {[kind |-> "raises", text |-> <<>>], [kind |-> "no_outputs", text |-> <<>>],
   [kind |-> "outputs", text |-> <<>>], [kind |-> "outputs", text |-> <<"a">>],
   [kind |-> "echo", text |-> <<>>]}

\* the LLMInterface of the two calls: without a pipeline (the mock answers),
\* or with a pipeline that is one of the generators
GeneratorConfigs ==
  {[pipeline |-> "None", backend |-> NoBackend]}
    \cup {[pipeline |-> "loaded", backend |-> g] : g \in Generators}

\* what the generator does when called with a prompt
GeneratorOutcome(generator, prompt) ==
  IF generator.kind = "echo"
    THEN [kind |-> "outputs",
          text |-> SubSeq(prompt, Max(1, Len(prompt) - 2), Len(prompt) - 1)]
    ELSE generator

\* one distill call run from its first statement to its end with nothing else
\* going on: the loop of the entry point, then its return statement
RECURSIVE distill_alone(_, _, _, _)
distill_alone(c, max_iterations, self_pipeline, generator) ==
  IF c.pc \in {"returned", "raised"} THEN c
  ELSE IF c.pc = "loop" /\ RangeHasNext(c.next, max_iterations)
    THEN LET iteration == c.next
             request == distillation_request(c.template, c.current)
             g == generate_response(self_pipeline, request,
                                    GeneratorOutcome(generator, request))
             seen == [prompt |-> request,
                      backend |-> BackendSeen(self_pipeline,
                                              GeneratorOutcome(generator, request)),
                      status |-> g.status, text |-> g.text]
             stop == ConvergenceCheck(c.current, g.text)
         IN  distill_alone(
               [c EXCEPT
                  !.iteration = iteration, !.iteration_bound = TRUE,
                  !.generations = Append(@, seen),
                  !.conversation = add_exchange(@, request, g.text),
                  !.distillation_history =
                     Append(@, HistoryEntry(iteration, c.current, g.text, request)),
                  !.pc = IF stop THEN "break" ELSE "loop",
                  !.exit = IF stop THEN "break" ELSE "",
                  !.current = IF stop THEN @ ELSE g.text,
                  !.next = IF stop THEN @ ELSE iteration + 1],
               max_iterations, self_pipeline, generator)
  ELSE IF ~c.iteration_bound
    THEN [c EXCEPT !.pc = "raised", !.error = "UnboundLocalError", !.exit = "exhausted"]
  ELSE [c EXCEPT
          !.pc = "returned",
          !.exit = IF c.pc = "break" THEN "break" ELSE "exhausted",
          !.result =
             [method |-> c.method, initial_text |-> c.initial, final_text |-> c.current,
              iterations |-> Len(c.distillation_history),
              converged |-> ConvergedFlag(c.iteration, max_iterations),
              history |-> c.distillation_history,
              conversation |-> c.conversation]]

\* the call record an entry point starts its loop with
EnteredCall(e, text) ==
  [IdleCall EXCEPT !.pc = "loop", !.entry = e.entry, !.method = e.method,
                   !.template = e.template, !.initial = text, !.current = text,
                   !.conversation = NewConversation(EmptyContext, e.is_telephone)]

\* one LLMInterface, one DistillationPipeline, the generator and the bound
\* noted in the probe, no call entered
InitInterleaved ==
  /\ \E max_iterations \in MinIter..MaxIter, g \in GeneratorConfigs :
       /\ llm = [constructed |-> TRUE, pipeline |-> g.pipeline]
       /\ pipeline = [constructed |-> TRUE, max_iterations |-> max_iterations]
       /\ probe = [IdleProbe EXCEPT !.fn = "generator", !.num = max_iterations,
                                    !.reply = g.backend]
  /\ calls = [p \in TwoProcs |-> IdleCall]
  /\ conv = IdleConv
  /\ registry = IdleRegistry
  /\ experiment = IdleExperiment

\* one of the two callers enters a distill entry point
PairEnter(p) ==
  \E e \in Entries, text \in PairTexts : Enter(p, e, text)

\* one of the two calls makes its next generation call and finishes the pass
PairIterate(p) ==
  IterateWith(p, {GeneratorOutcome(probe.reply,
                                   distillation_request(calls[p].template,
                                                        calls[p].current))})

NextInterleaved ==
  \/ \E p \in TwoProcs : PairEnter(p)
  \/ \E p \in TwoProcs : PairIterate(p)
  \/ \E p \in TwoProcs : Return(p)

SpecInterleaved == InitInterleaved /\ [][NextInterleaved]_vars

\* the entry point and method call p went in by
EntryUsed(p) ==
  CHOOSE e \in Entries : e.entry = calls[p].entry /\ e.method = calls[p].method

\* C24: whatever the other call does in between, a call that has ended ended
\* as it does alone: same result, same requests and replies, same error; the
\* pipeline's max_iterations and the registry are what they were.
C24_InterleavedAsAlone ==
  /\ \A p \in TwoProcs :
       calls[p].pc \in {"returned", "raised"} =>
         calls[p] = distill_alone(EnteredCall(EntryUsed(p), calls[p].initial),
                                  probe.num, llm.pipeline, probe.reply)
  /\ pipeline.max_iterations = probe.num
  /\ registry = IdleRegistry

\* C24 witness: two different calls, both over two passes with the echo
\* generator, have returned
C24_Witness ==
  /\ calls[1].pc = "returned"
  /\ calls[2].pc = "returned"
  /\ llm.pipeline = "loaded"
  /\ probe.reply.kind = "echo"
  /\ calls[1].entry = "distill_with_history"
  /\ calls[2].entry = "distill_by_telephone"
  /\ calls[1].initial = <<"a", "A">>
  /\ calls[2].initial = <<"a">>
  /\ calls[1].result.iterations = 2
  /\ calls[2].result.iterations = 2
  /\ calls[1].result.final_text # calls[2].result.final_text

-----------------------------------------------------------------------------
(* Properties of _has_converged as a function of its arguments.             *)

\* the rule in exact arithmetic: with lengthRatio = min / max and
\* charSimilarity = agreeing / max, (lengthRatio + charSimilarity) / 2 >= num / den
\* is (min + agreeing) * den >= 2 * max * num
ReferenceRule(previous, current, num, den) ==
  LET shorter == Min(Len(previous), Len(current))
      longer == Max(Len(previous), Len(current))
      agreeing == Cardinality({i \in 1..shorter : Lower(previous)[i] = Lower(current)[i]})
  IN  (shorter + agreeing) * den >= 2 * longer * num

\* C25: with a non-empty current, _has_converged returns what the rule
\* (lengthRatio + charSimilarity) / 2 >= threshold gives, and "Hello world"
\* against "Goodbye moon" at 0.9 has not converged. This fails for the texts of
\* 19 and 20 characters at 0.9: their score is 0.9, and the floats give
\* 0.8999999999999999.
C25_ReferenceRule ==
  (/\ probe.pc = "done"
   /\ probe.fn = "_has_converged"
   /\ Len(probe.current) > 0) =>
    /\ probe.verdict.status = "return"
    /\ probe.verdict.value =
         ReferenceRule(probe.previous, probe.current, probe.num, ThresholdDen)
    /\ (/\ probe.previous = ProbeTexts.hello_world
        /\ probe.current = ProbeTexts.goodbye_moon
        /\ probe.num = 90) => probe.verdict.value = FALSE

\* C30: for a threshold above 0 the call with the two texts exchanged returns
\* the same value, and false when either text is empty.
C30_Symmetric ==
  (/\ probe.pc = "done"
   /\ probe.fn = "_has_converged"
   /\ probe.num > 0) =>
    /\ probe.verdict =
         _has_converged_call(probe.current, probe.previous, probe.num, ThresholdDen)
    /\ (Len(probe.previous) = 0 \/ Len(probe.current) = 0) =>
         /\ probe.verdict.status = "return"
         /\ probe.verdict.value = FALSE

\* C30 witness: a longer previous and a shorter current converged at 0.5, the
\* texts differing in length and in characters
C30_Witness ==
  /\ probe.pc = "done"
  /\ probe.fn = "_has_converged"
  /\ probe.num = 50
  /\ Len(probe.previous) > Len(probe.current)
  /\ Len(probe.current) > 0
  /\ CommonChars(probe.previous, probe.current) < Len(probe.current)
  /\ probe.verdict.status = "return"
  /\ probe.verdict.value = TRUE

\* C30 witness for the empty case: an empty previous against a non-empty
\* current at a positive threshold
C30_EmptyPrevious ==
  /\ probe.pc = "done"
  /\ probe.fn = "_has_converged"
  /\ probe.num > 0
  /\ Len(probe.previous) = 0
  /\ Len(probe.current) > 0
  /\ probe.verdict.value = FALSE

-----------------------------------------------------------------------------
(* Properties relating the entry points of the pipeline.                    *)

\* what the generator gave a call, in order: a text or an exception
OutputsOf(c) ==
  [k \in 1..Len(c.generations) |->
     [status |-> c.generations[k].status, text |-> c.generations[k].text]]

\* two calls were given the same outputs as far as both asked
SameOutputs(c, d) ==
  \A k \in 1..Min(Len(c.generations), Len(d.generations)) :
    OutputsOf(c)[k] = OutputsOf(d)[k]

\* a call has ended, by return or by exception
Ended(c) == c.pc \in {"returned", "raised"}

\* two ended calls took the same path: same passes, same inputs and outputs in
\* each pass, same exit, same error, same final text, count and flag
SamePath(c, d) ==
  /\ c.pc = d.pc
  /\ c.exit = d.exit
  /\ c.error = d.error
  /\ Len(c.generations) = Len(d.generations)
  /\ Len(c.distillation_history) = Len(d.distillation_history)
  /\ \A k \in 1..Len(c.distillation_history) :
       /\ c.distillation_history[k].iteration = d.distillation_history[k].iteration
       /\ c.distillation_history[k].input = d.distillation_history[k].input
       /\ c.distillation_history[k].output = d.distillation_history[k].output
  /\ c.pc = "returned" =>
       /\ c.result.initial_text = d.result.initial_text
       /\ c.result.final_text = d.result.final_text
       /\ c.result.iterations = d.result.iterations
       /\ c.result.converged = d.result.converged

\* every request of a call is its template, a blank line and the pass's input
RequestsFrom(c, template) ==
  /\ \A k \in 1..Len(c.distillation_history) :
       c.distillation_history[k].request =
         distillation_request(template, c.distillation_history[k].input)
  /\ \A k \in 1..Len(c.generations) :
       c.generations[k].prompt =
         distillation_request(template,
                              IF k = 1 THEN c.initial
                              ELSE c.distillation_history[k - 1].output)

\* C26: distill_response(text, method) and the prompt entry point of that
\* method, given the same text and the same generator outputs, end the same
\* way with the same iterations, converged flag, final text and history inputs
\* and outputs, the same method label and telephone flag; the requests differ
\* in the template only.
C26_ResponseAsPrompt ==
  \A p \in TwoProcs, q \in TwoProcs :
    (/\ Ended(calls[p])
     /\ Ended(calls[q])
     /\ calls[p].entry = "distill_response"
     /\ calls[q].entry \in {"distill_with_history", "distill_by_telephone"}
     /\ calls[q].method = calls[p].method
     /\ calls[p].initial = calls[q].initial
     /\ SameOutputs(calls[p], calls[q])) =>
      /\ SamePath(calls[p], calls[q])
      /\ calls[p].conversation.is_telephone = calls[q].conversation.is_telephone
      /\ calls[p].pc = "returned" => calls[p].result.method = calls[q].result.method
      /\ RequestsFrom(calls[p], response_distillation_prompt)
      /\ RequestsFrom(calls[q], DISTILLATION_PROMPT)

\* C26 witness: distill_response(text, "with_history") and distill_with_history
\* on the same two-character text, each over two passes with the same outputs,
\* have returned, and their first requests differ
C26_Witness ==
  /\ calls[1].pc = "returned"
  /\ calls[2].pc = "returned"
  /\ calls[1].entry = "distill_response"
  /\ calls[1].method = "with_history"
  /\ calls[2].entry = "distill_with_history"
  /\ calls[1].initial = <<"a", "A">>
  /\ calls[2].initial = <<"a", "A">>
  /\ SameOutputs(calls[1], calls[2])
  /\ calls[1].result.iterations = 2
  /\ calls[2].result.iterations = 2
  /\ calls[1].result.history[1].request # calls[2].result.history[1].request

LogOf(conversation, history) ==
  /\ Len(conversation.exchanges) = Len(history)
  /\ \A k \in 1..Len(history) :
       conversation.exchanges[k] = <<history[k].request, history[k].output>>

-----------------------------------------------------------------------------
(* Properties of the steps of a Conversation.                               *)

\* C28: every step on a Conversation either adds one pair at the end of
\* exchanges, leaving the earlier pairs, the context and is_telephone as they
\* were, or is a formulate_prompt or str call that leaves the object as it was;
\* formulate_prompt returns a function of the object, so a second call with no
\* add_exchange in between returns the string of the first.
C28_AppendOnly ==
  [][\/ /\ Len(conv'.obj.exchanges) = Len(conv.obj.exchanges) + 1
        /\ SubSeq(conv'.obj.exchanges, 1, Len(conv.obj.exchanges)) = conv.obj.exchanges
        /\ conv'.obj.context = conv.obj.context
        /\ conv'.obj.is_telephone = conv.obj.is_telephone
     \/ /\ conv'.obj = conv.obj
        /\ conv'.out.op \in {"formulate_prompt", "__str__"}
        /\ conv'.out.op = "formulate_prompt" =>
             /\ conv'.out.status = "return"
             /\ conv'.out.text = formulate_prompt(conv.obj)
             /\ conv.out.op = "formulate_prompt" => conv'.out.text = conv.out.text
    ]_vars

\* C28 witness: formulate_prompt was called on a Conversation with history that
\* holds two different exchanges, the second added after the first
C28_Witness ==
  /\ conv.out.op = "formulate_prompt"
  /\ conv.out.text = formulate_prompt(conv.obj)
  /\ ~conv.obj.is_telephone
  /\ Len(conv.obj.exchanges) = 2
  /\ conv.obj.exchanges[1] = <<<<"a">>, <<"b">>>>
  /\ conv.obj.exchanges[2] = <<<<"b">>, <<>>>>

====
